---- MODULE Spec2Model ----
(***************************************************************************)
(* Verification model of the pickle-ball analysis pipeline.                *)
(*                                                                         *)
(*  - the per-frame target selection / identity lock of track.py main()    *)
(*  - the per-frame stroke heuristics of classification/heuristics.py      *)
(*                                                                         *)
(* Geometry is kept in integer pixels.  Box centres are kept doubled       *)
(* (x1 + x2, y1 + y2) so that no halving loses precision, and every        *)
(* distance comparison of the source (dist < 40, dist < max_relock_dist,   *)
(* dist < best_dist) is made exactly on squared doubled distances.  The    *)
(* ROI score is a float in the source; here it is a fixed-point number in  *)
(* units of 1/100000 built from per-mille ratios (ScoreUnit).              *)
(***************************************************************************)
EXTENDS Integers, Naturals, Sequences, FiniteSets, TLC

VARIABLES
    \* run configuration (command line of track.py)
    crop_box_px,        \* crop_region_norm scaled to pixels, <<>> when no ROI hint
    target_point_px,    \* target_point_norm scaled to pixels, <<>> when no click hint
    step,               \* --step
    tracker_ok,         \* tracker is not None
    \* cross-frame state of the frame loop
    i,                  \* loop index of enumerate(all_files): next frame to process
    target_track_id,
    lost_frames,
    prev_bbox_center,   \* doubled centre, <<>> for None
    saved_frame_count,
    \* locals of the frame processed last
    frame_idx,
    is_analysis_frame,
    detections,
    tracks,
    best_box,           \* <<>> for None
    best_conf,
    found,
    res_entry,          \* the record appended to results by that frame, <<>> if none
    yolo_failed,        \* the detector call of that frame raised
    tracker_failed,     \* the tracker update of that frame raised
    outcome,            \* which branch of the selection logic ended that frame
    last_box,           \* history: the box surfaced by the last frame with found = True
    \* the stroke heuristics, applied to one input at a time
    cls_metrics,        \* metrics
    cls_history,        \* frame_history
    cls_position,       \* position_data says at_kitchen_line
    cls_target_type,    \* target_type, "none" for None
    cls_result,         \* the returned (stroke_type, confidence, sub_type)
    \* StrokeClassifier.detect_segments, applied to one input at a time
    frames_metrics,     \* the per-frame metric dictionaries
    seg_target_type,    \* target_type, "none" for None
    seg_done,           \* the call has returned
    segments,           \* the returned list
    \* a whole run of track.py: command line, the two lists of the frame loop
    \* and the stroke post-processing
    stroke_type,        \* --stroke_type
    coarse_mode,        \* --coarse_mode
    classifier_ok,      \* StrokeClassifier could be imported
    window_start,       \* first frame of the analysis window, 0 without windows
    process_only_windows, \* --process_only_windows
    results,            \* frame_idx and track_id of the records appended so far
    all_frames_metrics, \* the metric dictionaries appended so far
    pose_frames,        \* history: frame_idx of the frames that gave those metrics
    raw_segments,       \* what detect_segments returned to the post-processing
    detected_strokes,   \* the strokes list of the output
    post_done,          \* the post-processing has run
    \* InjuryRiskDetector
    risk_history,       \* self.frame_history of the detector
    risk_counters,      \* self.risk_counters
    session_summary,    \* what get_session_summary returned last
    \* handler.py: one job
    handler_pc,         \* how far handler() has come
    frame_count,        \* number of extracted frame files
    strokes1,           \* strokes of results_pass1
    candidate_windows,  \* the list `merged`, in ticks
    analysis_windows,   \* windows_sec of the second run of track.py, in ticks
    pass2_files,        \* frame indices of all_files in the second run
    out_strokes,        \* strokes of the results the handler goes on with
    gate_strokes,       \* detected_strokes when the per-stroke filtering starts
    gate_filtered,      \* filtered when the loop has ended
    gate_done,          \* the per-stroke filtering has run
    frame_votes,        \* frame_votes of classify_sequence
    votes_done,         \* classify_sequence has run
    jobs,               \* local_server.py: the dictionary jobs of the local job server
    worker_pc,          \* position of the background thread of each job
    result,             \* what handler(job) returned to the thread of each job
    status_pc,          \* position of the GET /status request being served
    status_job,         \* job id of that request
    response            \* the dictionary response of that request

vars == <<crop_box_px, target_point_px, step, tracker_ok,
          i, target_track_id, lost_frames, prev_bbox_center, saved_frame_count,
          frame_idx, is_analysis_frame, detections, tracks, best_box, best_conf,
          found, res_entry, yolo_failed, tracker_failed, outcome, last_box,
          cls_metrics, cls_history, cls_position, cls_target_type, cls_result,
          frames_metrics, seg_target_type, seg_done, segments,
          stroke_type, coarse_mode, classifier_ok, window_start, process_only_windows,
          results, all_frames_metrics, pose_frames, raw_segments, detected_strokes,
          post_done, risk_history, risk_counters, session_summary,
          handler_pc, frame_count, strokes1, candidate_windows, analysis_windows,
          pass2_files, out_strokes, gate_strokes, gate_filtered, gate_done,
          frame_votes, votes_done,
          jobs, worker_pc, result, status_pc, status_job, response>>

cfgVars == <<crop_box_px, target_point_px, step, tracker_ok>>
loopVars == <<i, target_track_id, lost_frames, prev_bbox_center, saved_frame_count>>
frameVars == <<frame_idx, is_analysis_frame, detections, tracks, best_box, best_conf,
               found, res_entry, yolo_failed, tracker_failed, outcome, last_box>>
clsVars == <<cls_metrics, cls_history, cls_position, cls_target_type, cls_result>>
segVars == <<frames_metrics, seg_target_type, seg_done, segments>>
argVars == <<stroke_type, coarse_mode, classifier_ok, window_start, process_only_windows>>
listVars == <<results, all_frames_metrics, pose_frames>>
postVars == <<raw_segments, detected_strokes, post_done>>
runVars == <<argVars, listVars, postVars>>
riskVars == <<risk_history, risk_counters, session_summary>>
serverVars == <<jobs, worker_pc, result, status_pc, status_job, response>>
seqVars == <<frame_votes, votes_done>>
gateVars == <<gate_strokes, gate_filtered, gate_done>>
handlerVars == <<handler_pc, frame_count, strokes1, candidate_windows, analysis_windows,
                 pass2_files, out_strokes>>

(***************************************************************************)
(* Constants of track.py                                                   *)
(***************************************************************************)
NoneId == -2                 \* Python None for an identifier (no track has it)
NoBox == <<>>                \* Python None for a box or a centre
lock_wait_timeout == 90
LostTimeout == 300
StrictFallbackDist == 40
RelockMargin == 150
RelockDistEdge == 150
RelockDistNormal == 80
MinArea == 30000
RelaxedThreshold == 30000    \* 0.3 in ScoreUnit
ScoreUnit == 100000
Mille == 1000
Inf == 2000000000

\* frame size (img.shape) of the modelled video
width == 1280
height == 720

(***************************************************************************)
(* Geometry                                                                *)
(***************************************************************************)
Max(a, b) == IF a >= b THEN a ELSE b
Min(a, b) == IF a <= b THEN a ELSE b
Abs(a) == IF a >= 0 THEN a ELSE 0 - a
MaxOf(S) == CHOOSE m \in S : \A x \in S : m >= x
MinOf(S) == CHOOSE m \in S : \A x \in S : m <= x

RECURSIVE ISqrtBS(_, _, _)
ISqrtBS(n, lo, hi) ==
    IF lo >= hi THEN lo
    ELSE LET mid == (lo + hi + 1) \div 2
         IN IF mid * mid <= n THEN ISqrtBS(n, mid, hi) ELSE ISqrtBS(n, lo, mid - 1)
ISqrt(n) == ISqrtBS(n, 0, 2 * Mille)

Area(b) == (b[3] - b[1]) * (b[4] - b[2])
Center2(b) == <<b[1] + b[3], b[2] + b[4]>>
Dist2Sq(c, d) == (c[1] - d[1]) * (c[1] - d[1]) + (c[2] - d[2]) * (c[2] - d[2])
\* dist < r on real distances, as a comparison of squared doubled distances
Within(c, d, r) == Dist2Sq(c, d) < (2 * r) * (2 * r)

InterArea(b1, b2) ==
    LET x1 == Max(b1[1], b2[1])
        y1 == Max(b1[2], b2[2])
        x2 == Min(b1[3], b2[3])
        y2 == Min(b1[4], b2[4])
    IN IF x2 <= x1 \/ y2 <= y1 THEN 0 ELSE (x2 - x1) * (y2 - y1)

\* calculate_iou, per mille
calculate_iou(box1, box2) ==
    LET inter == InterArea(box1, box2)
        union == Area(box1) + Area(box2) - inter
    IN IF inter = 0 THEN 0
       ELSE IF union > 0 THEN (inter * Mille) \div union ELSE 0

(***************************************************************************)
(* Target selection helpers (track.py main, section C)                     *)
(***************************************************************************)
\* variant: the first candidate is adopted whenever the identifier is present
FindId_first(tr, id, k) ==
    IF \E j \in k..Len(tr) : tr[j].id = id THEN k ELSE 0

\* index of the first track carrying identifier id, 0 if none
RECURSIVE FindId(_, _, _)
FindId(tr, id, k) ==
    IF k > Len(tr) THEN 0
    ELSE IF tr[k].id = id THEN k ELSE FindId(tr, id, k + 1)

HasId(tr, id) == FindId(tr, id, 1) # 0

\* coverage of a candidate box by the crop box, per mille
Coverage(crop, b) ==
    LET inter == InterArea(crop, b)
    IN IF inter = 0 THEN 0
       ELSE IF Area(b) > 0 THEN (inter * Mille) \div Area(b) ELSE 0

\* dist_score = 1 - sqrt(dist_x^2 + dist_y^2) on normalised coordinates, per mille
DistScore(crop, b) ==
    LET c == Center2(b)
        rc == Center2(crop)
        dx == (Abs(c[1] - rc[1]) * Mille) \div (2 * width)
        dy == (Abs(c[2] - rc[2]) * Mille) \div (2 * height)
    IN Mille - ISqrt(dx * dx + dy * dy)

IsInside(crop, b) ==
    LET c == Center2(b)
    IN \/ /\ 2 * crop[1] <= c[1] /\ c[1] <= 2 * crop[3]
          /\ 2 * crop[2] <= c[2] /\ c[2] <= 2 * crop[4]
       \/ Coverage(crop, b) > 300

\* score = iou*0.4 + coverage*1.0 + dist_score*0.6, times 0.1 when not inside;
\* in ScoreUnit (1/100000)
CropScore(crop, b) ==
    LET raw == 4 * calculate_iou(crop, b) + 10 * Coverage(crop, b)
               + 6 * DistScore(crop, b)
    IN IF IsInside(crop, b) THEN 10 * raw ELSE raw

\* the scoring loop of OPTION 1: <<best_score, best_track_id>>
RECURSIVE CropBest(_, _, _, _, _)
CropBest(crop, tr, k, best_score, best_track_id) ==
    IF k > Len(tr) THEN <<best_score, best_track_id>>
    ELSE LET score == CropScore(crop, tr[k].box)
         IN IF score > best_score
            THEN CropBest(crop, tr, k + 1, score, tr[k].id)
            ELSE CropBest(crop, tr, k + 1, best_score, best_track_id)

\* variant: the nearest centre wins whether or not the box contains the point
RECURSIVE PointBest_nocontain(_, _, _, _, _)
PointBest_nocontain(pt, tr, k, min_dist, closest_id) ==
    IF k > Len(tr) THEN <<min_dist, closest_id>>
    ELSE LET dist == Dist2Sq(Center2(tr[k].box), <<2 * pt[1], 2 * pt[2]>>)
         IN IF dist < min_dist
            THEN PointBest_nocontain(pt, tr, k + 1, dist, tr[k].id)
            ELSE PointBest_nocontain(pt, tr, k + 1, min_dist, closest_id)

\* the loop of OPTION 2: <<min_dist (squared, doubled), closest_id>>
RECURSIVE PointBest(_, _, _, _, _)
PointBest(pt, tr, k, min_dist, closest_id) ==
    IF k > Len(tr) THEN <<min_dist, closest_id>>
    ELSE LET b == tr[k].box
             dist == Dist2Sq(Center2(b), <<2 * pt[1], 2 * pt[2]>>)
         IN IF /\ b[1] <= pt[1] /\ pt[1] <= b[3]
               /\ b[2] <= pt[2] /\ pt[2] <= b[4]
               /\ dist < min_dist
            THEN PointBest(pt, tr, k + 1, dist, tr[k].id)
            ELSE PointBest(pt, tr, k + 1, min_dist, closest_id)

\* the loop of OPTION 3 (it appears twice in the source; the second copy
\* recomputes the same value when the first found nothing)
RECURSIVE AreaBest(_, _, _, _)
AreaBest(tr, k, max_area, selected_id) ==
    IF k > Len(tr) THEN selected_id
    ELSE LET b == tr[k].box
             area == Area(b)
         IN IF area > MinArea /\ 100 * b[4] > 65 * height /\ area > max_area
            THEN AreaBest(tr, k + 1, area, tr[k].id)
            ELSE AreaBest(tr, k + 1, max_area, selected_id)

\* variant: the forced fallback waits for the whole window
ForcedFallback_full(idx) == idx > lock_wait_timeout

\* "elif best_track_id is not None and i > (lock_wait_timeout // 2)"
ForcedFallback(idx) == idx > (lock_wait_timeout \div 2)

\* variant: the run never waits for an ROI match
StillWaiting_never(idx) == idx < 0

\* "if i < lock_wait_timeout: ... continue"
StillWaiting(idx) == idx < lock_wait_timeout

\* OPTION 1 after the scoring loop, cb = <<best_score, best_track_id>>:
\* [wait |-> the frame is abandoned by `continue`, sel |-> selected_id]
RoiDecision(cb, idx) ==
    IF cb[2] # NoneId /\ cb[1] > RelaxedThreshold
    THEN [wait |-> FALSE, sel |-> cb[2]]
    ELSE IF cb[2] # NoneId /\ ForcedFallback(idx)
    THEN [wait |-> FALSE, sel |-> cb[2]]
    ELSE IF StillWaiting(idx)
    THEN [wait |-> TRUE, sel |-> -1]
    ELSE [wait |-> FALSE, sel |-> -1]

\* OPTION 2 after its loop, pb = <<min_dist, closest_id>>
PointDecision(pb) ==
    [wait |-> FALSE, sel |-> IF pb[2] # NoneId THEN pb[2] ELSE -1]

\* OPTION 3 (largest near-court box), entered when nothing is selected yet
AreaDecision(tr, opt12) ==
    IF opt12.wait \/ opt12.sel # -1 THEN opt12
    ELSE [wait |-> FALSE, sel |-> AreaBest(tr, 1, 0, -1)]

\* FIRST TIME SELECTION: [wait |-> the frame is abandoned by `continue`,
\*                        sel  |-> selected_id]
FirstTimeSelection(crop, pt, tr, idx) ==
    AreaDecision(tr,
        IF crop # NoBox
        THEN RoiDecision(CropBest(crop, tr, 1, 0, NoneId), idx)
        ELSE IF pt # NoBox
        THEN PointDecision(PointBest(pt, tr, 1, Inf, NoneId))
        ELSE [wait |-> FALSE, sel |-> -1])

\* RE-LOCK FALLBACK (YOLO): index of the detection adopted, 0 if none
RECURSIVE DetFallback(_, _, _, _, _, _)
DetFallback(crop, prev, de, k, best_fallback_dist, best_fallback_det) ==
    IF k > Len(de) THEN best_fallback_det
    ELSE LET c == Center2(de[k].box)
             is_in_crop ==
                 \/ crop = NoBox
                 \/ /\ 2 * crop[1] <= c[1] /\ c[1] <= 2 * crop[3]
                    /\ 2 * crop[2] <= c[2] /\ c[2] <= 2 * crop[4]
         IN IF /\ is_in_crop
               /\ prev # NoBox
               /\ Within(c, prev, StrictFallbackDist)
               /\ Dist2Sq(c, prev) < best_fallback_dist
            THEN DetFallback(crop, prev, de, k + 1, Dist2Sq(c, prev), k)
            ELSE DetFallback(crop, prev, de, k + 1, best_fallback_dist, best_fallback_det)

\* EDGE RE-ENTRY LOGIC
IsNearEdge(prev) ==
    \/ prev[1] < 2 * RelockMargin
    \/ prev[1] > 2 * (width - RelockMargin)
    \/ prev[2] < 2 * RelockMargin
    \/ prev[2] > 2 * (height - RelockMargin)

\* variant: the relaxed radius applies everywhere
MaxRelockDist_relaxed(prev) == RelockDistEdge

MaxRelockDist(prev) == IF IsNearEdge(prev) THEN RelockDistEdge ELSE RelockDistNormal

\* the re-entry scan: <<best_dist (squared, doubled), best_new_id>>
RECURSIVE RelockBest(_, _, _, _, _)
RelockBest(prev, tr, k, best_dist, best_new_id) ==
    IF k > Len(tr) THEN <<best_dist, best_new_id>>
    ELSE LET d == Dist2Sq(Center2(tr[k].box), prev)
         IN IF Within(Center2(tr[k].box), prev, MaxRelockDist(prev)) /\ d < best_dist
            THEN RelockBest(prev, tr, k + 1, d, tr[k].id)
            ELSE RelockBest(prev, tr, k + 1, best_dist, best_new_id)

\* lost_frames after a frame with candidates in which the target was not found
LostUpdate(lost, tid) ==
    IF lost + 1 > LostTimeout /\ tid # NoneId THEN 0 ELSE lost + 1

\* variant: the TIMEOUT branch drops the lock
TargetAfterLoss_reset(lost, tid) ==
    IF lost + 1 > LostTimeout THEN NoneId ELSE tid

\* target_track_id after the TIMEOUT branch: "DON'T reset target_track_id"
TargetAfterLoss(lost, tid) == tid

\* variant: the first-time selection runs whenever the target was not found
NeedsFirstSelection_anytime(sticky_found, tid) == ~sticky_found

\* "if not found and target_track_id is None": the first-time selection runs
NeedsFirstSelection(sticky_found, tid) == ~sticky_found /\ tid = NoneId

(***************************************************************************)
(* One iteration of the frame loop                                         *)
(***************************************************************************)
\* FALLBACK without tracker: raw detections as tracks with id -1
RECURSIVE RawTracks(_, _)
RawTracks(de, k) ==
    IF k > Len(de) THEN <<>>
    ELSE <<[id |-> -1, box |-> de[k].box, conf |-> de[k].conf]>> \o RawTracks(de, k + 1)

\* EDGE RE-ENTRY LOGIC and the end of the try block; st is the state after
\* the persistence update, rl = <<best_dist, best_new_id>> of the re-entry scan
AfterRelockScan(trks, st, rl) ==
    LET k2 == IF rl[2] # NoneId THEN FindId(trks, rl[2], 1) ELSE 0
    IN IF k2 # 0
       THEN \* after the try block: prev_bbox_center follows the box found
            [wait |-> FALSE, tid |-> rl[2], prev |-> Center2(trks[k2].box),
             lost |-> st.lost, found |-> TRUE, box |-> trks[k2].box,
             conf |-> trks[k2].conf, outcome |-> "relock"]
       ELSE st

\* "Update Persistence Logic": k1 is the index of the target among the tracks,
\* kd the index of the detection adopted by the fallback (0 for none)
AfterPersistence(prev, lost, trks, dets, sel, tid1, k1, kd) ==
    LET found1 == k1 # 0 \/ kd # 0
        box1 == IF k1 # 0 THEN trks[k1].box
                ELSE IF kd # 0 THEN dets[kd].box ELSE NoBox
        conf1 == IF k1 # 0 THEN trks[k1].conf
                 ELSE IF kd # 0 THEN dets[kd].conf ELSE 0
    IN [wait |-> FALSE,
        tid |-> IF found1 THEN tid1 ELSE TargetAfterLoss(lost, tid1),
        prev |-> IF found1 THEN Center2(box1) ELSE prev,
        lost |-> IF found1 THEN 0 ELSE LostUpdate(lost, tid1),
        found |-> found1, box |-> box1, conf |-> conf1,
        outcome |-> IF k1 # 0
                    THEN (IF sel # -1 THEN "first_lock" ELSE "present")
                    ELSE IF kd # 0 THEN "det_recovered" ELSE "lost"]

\* the re-entry scan runs when the target is still not found
RelockScan(trks, st) ==
    AfterRelockScan(trks, st,
        IF ~st.found /\ st.tid # NoneId /\ st.prev # NoBox
        THEN RelockBest(st.prev, trks, 1, Inf, NoneId)
        ELSE <<Inf, NoneId>>)

\* RE-LOCK FALLBACK (YOLO), tried when the target is not among the tracks
AfterFindTarget(crop, prev, lost, trks, dets, sel, tid1, k1) ==
    RelockScan(trks,
        AfterPersistence(prev, lost, trks, dets, sel, tid1, k1,
            IF k1 = 0 /\ Len(dets) > 0
            THEN DetFallback(crop, prev, dets, 1, Inf, 0) ELSE 0))

\* "Find our target in current tracks", tid1 being target_track_id after the
\* first-time selection
FindTarget(crop, prev, lost, trks, dets, sel, tid1) ==
    AfterFindTarget(crop, prev, lost, trks, dets, sel, tid1, FindId(trks, tid1, 1))

\* the frame after the first-time selection fts = [wait, sel]
AfterFirstSelection(crop, tid, prev, lost, trks, dets, fts) ==
    IF fts.wait
    THEN [wait |-> TRUE, tid |-> tid, prev |-> prev, lost |-> lost,
          found |-> FALSE, box |-> NoBox, conf |-> 0, outcome |-> "wait"]
    ELSE FindTarget(crop, prev, lost, trks, dets, fts.sel,
                    IF fts.sel # -1 THEN fts.sel ELSE tid)

\* The selection logic (section C) for one frame: the values of the loop's
\* variables when the try block is left.
Selection(crop, pt, idx, tid, prev, lost, trks, dets) ==
    IF Len(trks) = 0
    THEN [wait |-> FALSE, tid |-> tid, prev |-> prev, lost |-> lost,
          found |-> FALSE, box |-> NoBox, conf |-> 0, outcome |-> "empty"]
    ELSE AfterFirstSelection(crop, tid, prev, lost, trks, dets,
             IF NeedsFirstSelection(tid # NoneId /\ HasId(trks, tid), tid)
             THEN FirstTimeSelection(crop, pt, trks, idx)
             ELSE [wait |-> FALSE, sel |-> -1])

\* bbox of the frame record
RecordBox(box) == IF box = NoBox THEN <<0, 0, 0, 0>> ELSE box

\* res_entry of the frame record
ResEntry(saved, fidx, box, conf, tid) ==
    [frameIdx |-> saved, frame_idx |-> fidx, bbox |-> RecordBox(box),
     confidence |-> conf,
     track_id |-> IF tid # NoneId /\ tid # 0 THEN tid ELSE -1]

\* frame index of all_files[k]: the files are frame_0001.png, frame_0002.png,
\* ...; window-only processing keeps the files from the window's first frame on
FrameIdxFromPath(k) == (IF process_only_windows THEN window_start ELSE 0) + k

\* A. Detection: the detector runs on analysis frames only; when the call
\* raises, detections keeps its initial empty value
DetectionsOfFrame(analysis, de_in, yfail) ==
    IF analysis /\ ~yfail THEN de_in ELSE <<>>

\* variant: a failed tracker update falls back to the raw detections
TracksOfFrame_rawonfail(has_tracker, tr_in, tfail, dets) ==
    IF has_tracker /\ ~tfail THEN tr_in ELSE RawTracks(dets, 1)

\* tracks of the frame: the tracker's output, [] when the update raises, the
\* raw detections when there is no tracker
TracksOfFrame(has_tracker, tr_in, tfail, dets) ==
    IF has_tracker
    THEN (IF tfail THEN <<>> ELSE tr_in)
    ELSE RawTracks(dets, 1)

\* One readable frame: tr_in is what tracker.update returns, de_in what the
\* detector returns, yfail / tfail say that the call raises instead.
FrameStep(tr_in, de_in, yfail, tfail) ==
    LET fidx == FrameIdxFromPath(i)
        analysis == (fidx % step = 0)
        dets == DetectionsOfFrame(analysis, de_in, yfail)
        trks == TracksOfFrame(tracker_ok, tr_in, tfail, dets)
    IN \E r \in {Selection(crop_box_px, target_point_px, i, target_track_id,
                           prev_bbox_center, lost_frames, trks, dets)} :
       LET emit == analysis /\ ~r.wait IN
       /\ i' = i + 1
       /\ frame_idx' = fidx
       /\ is_analysis_frame' = analysis
       /\ detections' = dets
       /\ tracks' = trks
       /\ yolo_failed' = yfail
       /\ tracker_failed' = tfail
       /\ target_track_id' = r.tid
       /\ prev_bbox_center' = r.prev
       /\ lost_frames' = r.lost
       /\ found' = r.found
       /\ best_box' = r.box
       /\ best_conf' = r.conf
       /\ outcome' = r.outcome
       /\ last_box' = IF r.found THEN r.box ELSE last_box
       /\ saved_frame_count' = IF emit THEN saved_frame_count + 1 ELSE saved_frame_count
       /\ res_entry' = IF emit
                       THEN ResEntry(saved_frame_count, fidx, r.box, r.conf, r.tid)
                       ELSE <<>>
       /\ UNCHANGED cfgVars
       /\ UNCHANGED <<clsVars, segVars>>

\* the iteration as the frame loop specifications follow it: the selection
\* state and the record of the frame, without the lists of the whole run
ProcessFrame(tr_in, de_in, yfail, tfail) ==
    /\ FrameStep(tr_in, de_in, yfail, tfail)
    /\ UNCHANGED <<runVars, riskVars, handlerVars, gateVars, seqVars, serverVars>>

\* cv2.imread returns None: the iteration is abandoned before anything is computed
UnreadableFrameStep ==
    /\ i' = i + 1
    /\ frame_idx' = FrameIdxFromPath(i)
    /\ is_analysis_frame' = (FrameIdxFromPath(i) % step = 0)
    /\ detections' = <<>>
    /\ tracks' = <<>>
    /\ yolo_failed' = FALSE
    /\ tracker_failed' = FALSE
    /\ found' = FALSE
    /\ best_box' = NoBox
    /\ best_conf' = 0
    /\ outcome' = "unreadable"
    /\ res_entry' = <<>>
    /\ UNCHANGED <<target_track_id, prev_bbox_center, lost_frames, saved_frame_count,
                   last_box>>
    /\ UNCHANGED cfgVars
    /\ UNCHANGED <<clsVars, segVars, runVars, riskVars, handlerVars, gateVars, seqVars,
                   serverVars>>

(***************************************************************************)
(* Bounded inputs                                                          *)
(***************************************************************************)
\* candidate boxes, the ROI hint and the click point of the modelled scenes
BoxS  == <<40, 20, 220, 270>>       \* inside the ROI hint
BoxS2 == <<50, 30, 230, 280>>       \* 14 px from BoxS
BoxA  == <<500, 300, 700, 600>>     \* near court, mid frame
BoxA2 == <<520, 310, 720, 610>>     \* 22 px from BoxA
BoxB  == <<540, 340, 760, 660>>     \* 71 px from BoxA, larger
BoxC  == <<600, 340, 820, 660>>     \* 121 px from BoxA, 60 px from BoxB
BoxE  == <<20, 300, 160, 600>>      \* near the left edge
BoxF  == <<140, 300, 280, 600>>     \* 120 px from BoxE, not near an edge
BoxF2 == <<150, 310, 290, 610>>     \* 14 px from BoxF
BoxT  == <<900, 100, 1000, 300>>    \* small, far court
BoxZ  == <<1100, 480, 1280, 720>>   \* far corner: ROI score below zero
BoxZ2 == <<1060, 460, 1260, 720>>   \* far corner, larger: ROI score below zero
BoxG  == <<80, 300, 220, 600>>      \* 60 px from BoxE and from BoxF, not near an edge
BoxK  == <<160, 300, 300, 600>>     \* 140 px from BoxE, 80 px from BoxG
BoxH  == <<170, 300, 310, 600>>     \* 150 px from BoxE, 30 px from BoxF
CropBox == <<0, 0, 256, 288>>       \* crop_region 0,0,0.2,0.4
ClickPoint == <<610, 450>>          \* inside BoxA, BoxA2, BoxB and BoxC

Trk(id, box, conf) == [id |-> id, box |-> box, conf |-> conf]
Det(box, conf) == [box |-> box, conf |-> conf]

MaxFrames == 3
MaxTracks == 2
MaxDets == 1

\* sequences of at most n elements of S
SeqsUpTo(S, n) == UNION {[1..k -> S] : k \in 0..n}

DistinctIds(tr) == \A a, b \in 1..Len(tr) : a # b => tr[a].id # tr[b].id

TrackPool == {Trk(1, BoxA, 60), Trk(1, BoxS, 70), Trk(2, BoxB, 90),
              Trk(2, BoxE, 95), Trk(3, BoxC, 70)}
TrackInputs == {tr \in SeqsUpTo(TrackPool, MaxTracks) : DistinctIds(tr)}
DetPool == {Det(BoxA2, 80), Det(BoxS2, 80)}
\* the detector reports a box once
DistinctBoxes(de) == \A a, b \in 1..Len(de) : a # b => de[a].box # de[b].box
DetInputs == {de \in SeqsUpTo(DetPool, MaxDets) : DistinctBoxes(de)}

(***************************************************************************)
(* Stroke heuristics (classification/heuristics.py)                        *)
(*                                                                         *)
(* Normalised coordinates are integers in thousandths, angles are integer  *)
(* degrees and confidences are integers in hundredths.  A metrics record   *)
(* carries Absent for a key the dict does not have, so that each .get()    *)
(* default of the source applies where the source applies it.              *)
(***************************************************************************)
Absent == -9999
Get(m, v, default) == IF v = Absent THEN default ELSE v

\* THRESHOLDS
OH_min_shoulder_abduction == 110
OH_min_wrist_above_nose == 50
OH_confidence_high == 130
SV_max_wrist_above_hip == 200
SV_min_shoulder_abduction == 20
SV_max_shoulder_abduction == 100
SV_min_hip_rotation == 3
SV_min_wrist_velocity == 8
SV_peak_velocity_threshold == 20
SV_min_upward_frames == 2
GS_min_shoulder_abduction == 45
GS_max_shoulder_abduction == 110
GS_min_hip_rotation == 10
VL_min_shoulder_abduction == 30
VL_max_shoulder_abduction == 85
VL_max_wrist_velocity == 15
VL_punch_min_shoulder == 55
DK_max_shoulder_abduction == 55
DK_max_wrist_velocity == 12
DK_min_knee_flexion == 15
DK_max_knee_flexion == 70

\* vel_y = curr_y - prev_y is a double-precision subtraction: where the decimal
\* difference of two coordinates equals a threshold, the rounding of the
\* operands decides the comparison.  The wrist coordinates used here are
\* multiples of 0.005 in [0.30, 0.60] and consecutive frames differ by a
\* multiple of 0.01, so the only such difference is 0.02
\* (peak_velocity_threshold); these are the pairs <<curr_y, prev_y>> whose
\* computed difference lies above the double 0.02 or -0.02 ...
SubRoundsUp ==
    { <<320, 300>>, <<325, 305>>, <<325, 345>>, <<330, 310>>, <<330, 350>>,
      <<335, 315>>, <<335, 355>>, <<340, 320>>, <<340, 360>>, <<365, 345>>,
      <<370, 350>>, <<375, 355>>, <<380, 360>>, <<385, 365>>, <<390, 370>>,
      <<390, 410>>, <<395, 375>>, <<395, 415>>, <<400, 380>>, <<400, 420>>,
      <<405, 385>>, <<405, 425>>, <<430, 410>>, <<435, 415>>, <<440, 420>>,
      <<445, 425>>, <<450, 430>>, <<450, 470>>, <<455, 435>>, <<455, 475>>,
      <<460, 440>>, <<460, 480>>, <<465, 445>>, <<465, 485>>, <<490, 470>>,
      <<495, 475>>, <<500, 480>>, <<505, 485>>, <<510, 490>>, <<515, 495>>,
      <<520, 500>>, <<525, 505>>, <<530, 510>>, <<535, 515>>, <<540, 520>>,
      <<545, 525>>, <<545, 565>>, <<550, 530>>, <<550, 570>>, <<555, 535>>,
      <<555, 575>>, <<560, 540>>, <<560, 580>>, <<585, 565>>, <<590, 570>>,
      <<595, 575>>, <<600, 580>> }

\* ... and the pairs whose computed difference lies below it
SubRoundsDown ==
    { <<300, 320>>, <<305, 325>>, <<310, 330>>, <<315, 335>>, <<320, 340>>,
      <<345, 325>>, <<345, 365>>, <<350, 330>>, <<350, 370>>, <<355, 335>>,
      <<355, 375>>, <<360, 340>>, <<360, 380>>, <<365, 385>>, <<370, 390>>,
      <<375, 395>>, <<380, 400>>, <<385, 405>>, <<410, 390>>, <<410, 430>>,
      <<415, 395>>, <<415, 435>>, <<420, 400>>, <<420, 440>>, <<425, 405>>,
      <<425, 445>>, <<430, 450>>, <<435, 455>>, <<440, 460>>, <<445, 465>>,
      <<470, 450>>, <<470, 490>>, <<475, 455>>, <<475, 495>>, <<480, 460>>,
      <<480, 500>>, <<485, 465>>, <<485, 505>>, <<490, 510>>, <<495, 515>>,
      <<500, 520>>, <<505, 525>>, <<510, 530>>, <<515, 535>>, <<520, 540>>,
      <<525, 545>>, <<530, 550>>, <<535, 555>>, <<540, 560>>, <<565, 545>>,
      <<565, 585>>, <<570, 550>>, <<570, 590>>, <<575, 555>>, <<575, 595>>,
      <<580, 560>>, <<580, 600>> }

\* curr_y - prev_y in half-thousandths: twice the decimal difference, moved by
\* one where the double-precision result is off the decimal value
FloatSub(curr_y, prev_y) ==
    2 * (curr_y - prev_y)
    + (IF <<curr_y, prev_y>> \in SubRoundsUp THEN 1
       ELSE IF <<curr_y, prev_y>> \in SubRoundsDown THEN -1 ELSE 0)

\* compute_velocity(current, history, 'right_wrist_y'): <<vel_y, magnitude>> in
\* half-thousandths; key_x is never passed, so the magnitude is |vel_y|
compute_velocity(current, history) ==
    IF Len(history) < 1 THEN <<0, 0>>
    ELSE LET curr_y == Get(current, current.right_wrist_y, 500)
             prev_y == Get(history[Len(history)], history[Len(history)].right_wrist_y, curr_y)
         IN <<FloatSub(curr_y, prev_y), Abs(FloatSub(curr_y, prev_y))>>

\* count_upward_frames: the loop from the last entry down to index 1
RECURSIVE CountUpFrom(_, _)
CountUpFrom(history, k) ==
    IF k < 2 THEN 0
    ELSE IF Get(history[k], history[k].right_wrist_y, 500)
              < Get(history[k - 1], history[k - 1].right_wrist_y, 500)
         THEN 1 + CountUpFrom(history, k - 1)
         ELSE 0

count_upward_frames(history) ==
    IF Len(history) < 2 THEN 0 ELSE CountUpFrom(history, Len(history))

is_overhead(metrics, history) ==
    LET wrist_y == Get(metrics, metrics.right_wrist_y, 1000)
        nose_y == Get(metrics, metrics.nose_y, 500)
        shoulder_abd == Get(metrics, metrics.right_shoulder_abduction, 0)
        wrist_above_head == (nose_y - wrist_y) >= OH_min_wrist_above_nose
        high_shoulder == shoulder_abd >= OH_min_shoulder_abduction
    IN IF wrist_above_head /\ high_shoulder
       THEN [ok |-> TRUE,
             conf |-> IF shoulder_abd >= OH_confidence_high THEN 95 ELSE 85,
             sub |-> ""]
       ELSE [ok |-> FALSE, conf |-> 0, sub |-> ""]

\* "Check last 5 frames for high velocity"
RecentHadServeVelocity(history) ==
    /\ Len(history) >= 2
    /\ \E k \in (Max(0, Len(history) - 5) + 1)..Len(history) :
          /\ k > 1
          /\ LET prev_wrist == Get(history[k], history[k].right_wrist_y, 500)
                 earlier_wrist == Get(history[k - 1], history[k - 1].right_wrist_y, prev_wrist)
             IN Abs(prev_wrist - earlier_wrist) >= 15

ServeScore(metrics, history) ==
    LET wrist_y == Get(metrics, metrics.right_wrist_y, 500)
        hip_y == Get(metrics, metrics.right_hip_y, 500)
        shoulder_abd == Get(metrics, metrics.right_shoulder_abduction, 0)
        hip_rotation == Abs(Get(metrics, metrics.hip_rotation_deg, 0))
        wrist_at_waist == (hip_y - wrist_y) <= SV_max_wrist_above_hip
        wrist_during_followthrough == wrist_y < hip_y
        shoulder_in_range == /\ SV_min_shoulder_abduction <= shoulder_abd
                             /\ shoulder_abd <= SV_max_shoulder_abduction
        has_hip_rotation == hip_rotation >= SV_min_hip_rotation
        vel == compute_velocity(metrics, history)
        is_moving_up == vel[1] < 2 * (-5)
        has_velocity == vel[2] >= 2 * SV_min_wrist_velocity
        has_strong_velocity == vel[2] >= 2 * SV_peak_velocity_threshold
        upward_frames == count_upward_frames(history \o <<metrics>>)
        sustained_upward == upward_frames >= SV_min_upward_frames
    IN (IF wrist_at_waist THEN 1 ELSE 0)
       + (IF shoulder_in_range THEN 1 ELSE 0)
       + (IF has_hip_rotation THEN 1 ELSE 0)
       + (IF is_moving_up THEN 2 ELSE 0)
       + (IF has_velocity THEN 1 ELSE 0)
       + (IF sustained_upward THEN 1 ELSE 0)
       + (IF has_strong_velocity THEN 2 ELSE 0)
       + (IF /\ RecentHadServeVelocity(history)
             /\ wrist_during_followthrough
             /\ shoulder_in_range
          THEN 2 ELSE 0)

\* variant: the confidence of the dink scoring is used
ServeConfidence_dinkscale(score) == Min(70 + (score - 3) * 8, 95)

\* "confidence = min(0.55 + (score - 3) * 0.06, 0.95)"
ServeConfidence(score) == Min(55 + (score - 3) * 6, 95)

is_serve(metrics, history) ==
    LET score == ServeScore(metrics, history)
    IN IF score >= 3
       THEN [ok |-> TRUE, conf |-> ServeConfidence(score), sub |-> ""]
       ELSE [ok |-> FALSE, conf |-> 0, sub |-> ""]

is_groundstroke(metrics, history) ==
    LET shoulder_abd == Get(metrics, metrics.right_shoulder_abduction, 0)
        hip_rotation == Abs(Get(metrics, metrics.hip_rotation_deg, 0))
        shoulder_in_range == /\ GS_min_shoulder_abduction <= shoulder_abd
                             /\ shoulder_abd <= GS_max_shoulder_abduction
        has_hip_rotation == hip_rotation >= GS_min_hip_rotation
        is_forehand == Get(metrics, metrics.right_shoulder_x, 500)
                         > Get(metrics, metrics.left_shoulder_x, 500)
        confidence == IF has_hip_rotation THEN 85 ELSE 75
        sub_type == IF is_forehand
                    THEN (IF shoulder_abd >= 70 THEN "forehand_drive" ELSE "forehand_control")
                    ELSE (IF shoulder_abd >= 70 THEN "backhand_drive" ELSE "backhand_control")
    IN IF ~shoulder_in_range
       THEN [ok |-> FALSE, conf |-> 0, sub |-> ""]
       ELSE [ok |-> TRUE, conf |-> Min(confidence, 95), sub |-> sub_type]

is_volley(metrics, history, at_kitchen_line) ==
    LET shoulder_abd == Get(metrics, metrics.right_shoulder_abduction, 0)
        shoulder_in_range == /\ VL_min_shoulder_abduction <= shoulder_abd
                             /\ shoulder_abd <= VL_max_shoulder_abduction
        vel == compute_velocity(metrics, history)
        is_compact == vel[2] <= 2 * VL_max_wrist_velocity
        punch == shoulder_abd >= VL_punch_min_shoulder
        confidence == (IF punch THEN 85 ELSE 80) + (IF at_kitchen_line THEN 5 ELSE 0)
    IN IF ~shoulder_in_range
       THEN [ok |-> FALSE, conf |-> 0, sub |-> ""]
       ELSE IF ~is_compact /\ Len(history) > 0
       THEN [ok |-> FALSE, conf |-> 0, sub |-> ""]
       ELSE [ok |-> TRUE, conf |-> Min(confidence, 95),
             sub |-> IF punch THEN "punch" ELSE "block"]

DinkScore(metrics, history) ==
    LET shoulder_abd == Get(metrics, metrics.right_shoulder_abduction, 0)
        knee_flexion == Get(metrics, metrics.right_knee_flexion, 180)
        wrist_y == Get(metrics, metrics.right_wrist_y, 500)
        hip_y == Get(metrics, metrics.right_hip_y, 500)
        low_shoulder == shoulder_abd <= DK_max_shoulder_abduction
        vel == compute_velocity(metrics, history)
        soft_touch == vel[2] <= 2 * DK_max_wrist_velocity
        low_body == DK_min_knee_flexion <= knee_flexion /\ knee_flexion <= DK_max_knee_flexion
        wrist_below_waist == wrist_y >= hip_y
    IN (IF low_shoulder THEN 1 ELSE 0)
       + (IF soft_touch THEN 2 ELSE 0)
       + (IF low_body THEN 1 ELSE 0)
       + (IF wrist_below_waist THEN 1 ELSE 0)

is_dink(metrics, history) ==
    LET score == DinkScore(metrics, history)
    IN IF score >= 3
       THEN [ok |-> TRUE, conf |-> Min(70 + (score - 3) * 8, 95), sub |-> "soft_game"]
       ELSE [ok |-> FALSE, conf |-> 0, sub |-> ""]

\* a metrics dict; a later frame of the same player is a dict of the same keys
Metric(wrist, nose, abd, hip, rot, knee, rsx, lsx) ==
    [right_wrist_y |-> wrist, nose_y |-> nose, right_shoulder_abduction |-> abd,
     right_hip_y |-> hip, hip_rotation_deg |-> rot, right_knee_flexion |-> knee,
     right_shoulder_x |-> rsx, left_shoulder_x |-> lsx]

EmptyMetric == Metric(Absent, Absent, Absent, Absent, Absent, Absent, Absent, Absent)

Result(t, c, sub) == [stroke_type |-> t, confidence |-> c, sub_type |-> sub]

\* no call has returned yet
NoResult == Result("none", 0, "")

\* variant: the volley rule is tried before the dink rule
classify_stroke_enhanced_volleyfirst(metrics, frame_history, at_kitchen_line, target_type) ==
    LET oh == is_overhead(metrics, frame_history)
        srv == is_serve(metrics, frame_history)
        dnk == is_dink(metrics, frame_history)
        vol == is_volley(metrics, frame_history, at_kitchen_line)
        gs == is_groundstroke(metrics, frame_history)
    IN IF oh.ok /\ oh.conf >= 80 THEN Result("overhead", oh.conf, "smash")
       ELSE IF srv.ok /\ srv.conf >= 75
       THEN Result("serve", IF target_type = "serve" THEN Max(srv.conf, 85) ELSE srv.conf,
                   "underhand")
       ELSE IF target_type # "serve" /\ vol.ok /\ vol.conf >= 75
       THEN Result("volley", vol.conf, vol.sub)
       ELSE IF target_type = "dink" /\ dnk.ok /\ dnk.conf >= 70
       THEN Result("dink", Max(dnk.conf, 80), dnk.sub)
       ELSE IF target_type \notin {"serve", "dink"} /\ dnk.ok /\ dnk.conf >= 75
       THEN Result("dink", dnk.conf, dnk.sub)
       ELSE IF target_type # "serve" /\ gs.ok
       THEN Result("groundstroke",
                   IF target_type \in {"groundstroke", "drive"} THEN Max(gs.conf, 80)
                   ELSE gs.conf, gs.sub)
       ELSE Result("unknown", 40, "unclassified")

\* variant: the serve hint does not skip the dink, volley and groundstroke rules
classify_stroke_enhanced_nogate(metrics, frame_history, at_kitchen_line, target_type) ==
    LET oh == is_overhead(metrics, frame_history)
        srv == is_serve(metrics, frame_history)
        dnk == is_dink(metrics, frame_history)
        vol == is_volley(metrics, frame_history, at_kitchen_line)
        gs == is_groundstroke(metrics, frame_history)
    IN IF oh.ok /\ oh.conf >= 80 THEN Result("overhead", oh.conf, "smash")
       ELSE IF srv.ok /\ srv.conf >= 75
       THEN Result("serve", IF target_type = "serve" THEN Max(srv.conf, 85) ELSE srv.conf,
                   "underhand")
       ELSE IF target_type = "dink" /\ dnk.ok /\ dnk.conf >= 70
       THEN Result("dink", Max(dnk.conf, 80), dnk.sub)
       ELSE IF target_type # "dink" /\ dnk.ok /\ dnk.conf >= 75
       THEN Result("dink", dnk.conf, dnk.sub)
       ELSE IF vol.ok /\ vol.conf >= 75
       THEN Result("volley", vol.conf, vol.sub)
       ELSE IF gs.ok
       THEN Result("groundstroke",
                   IF target_type \in {"groundstroke", "drive"} THEN Max(gs.conf, 80)
                   ELSE gs.conf, gs.sub)
       ELSE Result("unknown", 40, "unclassified")

\* classify_stroke_enhanced; target_type None is "none", position_data is
\* reduced to its at_kitchen_line flag
classify_stroke_enhanced(metrics, frame_history, at_kitchen_line, target_type) ==
    LET oh == is_overhead(metrics, frame_history)
        srv == is_serve(metrics, frame_history)
        dnk == is_dink(metrics, frame_history)
        vol == is_volley(metrics, frame_history, at_kitchen_line)
        gs == is_groundstroke(metrics, frame_history)
    IN \* 1. OVERHEAD
       IF oh.ok /\ oh.conf >= 80 THEN Result("overhead", oh.conf, "smash")
       \* 2. SERVE
       ELSE IF target_type = "serve" /\ srv.ok /\ srv.conf >= 75
       THEN Result("serve", Max(srv.conf, 85), "underhand")
       ELSE IF target_type # "serve" /\ srv.ok /\ srv.conf >= 75
       THEN Result("serve", srv.conf, "underhand")
       \* 3. DINK (skipped if the target is serve)
       ELSE IF target_type # "serve" /\ target_type = "dink" /\ dnk.ok /\ dnk.conf >= 70
       THEN Result("dink", Max(dnk.conf, 80), dnk.sub)
       ELSE IF target_type # "serve" /\ target_type # "dink" /\ dnk.ok /\ dnk.conf >= 75
       THEN Result("dink", dnk.conf, dnk.sub)
       \* 4. VOLLEY (skipped if the target is serve)
       ELSE IF target_type # "serve" /\ vol.ok /\ vol.conf >= 75
       THEN Result("volley", vol.conf, vol.sub)
       \* 5. GROUNDSTROKE (skipped if the target is serve)
       ELSE IF target_type # "serve" /\ target_type \in {"groundstroke", "drive"} /\ gs.ok
       THEN Result("groundstroke", Max(gs.conf, 80), gs.sub)
       ELSE IF target_type # "serve" /\ gs.ok
       THEN Result("groundstroke", gs.conf, gs.sub)
       ELSE Result("unknown", 40, "unclassified")

(***************************************************************************)
(* Specification of the frame loop                                         *)
(***************************************************************************)
InitCls ==
    /\ cls_metrics = EmptyMetric
    /\ cls_history = <<>>
    /\ cls_position = FALSE
    /\ cls_target_type = "none"
    /\ cls_result = NoResult

InitSeg ==
    /\ frames_metrics = <<>>
    /\ seg_target_type = "none"
    /\ seg_done = FALSE
    /\ segments = <<>>

RiskCategories == {"shoulder_overuse", "elbow_strain", "knee_stress", "poor_kinetic_chain"}

\* no summary has been asked for yet
NoSummary == [total_frames |-> Absent]

\* local_server.py after import: jobs = {}, no thread and no request
NoOutput == "None"
NoKey == "missing"
NoResponse == [id |-> 0, status |-> NoKey, output |-> NoKey, error |-> NoKey]

InitServer ==
    /\ jobs = <<>>
    /\ worker_pc = <<>>
    /\ result = <<>>
    /\ status_pc = "idle"
    /\ status_job = 0
    /\ response = NoResponse

InitSeq ==
    /\ frame_votes = <<>>
    /\ votes_done = FALSE

InitGate ==
    /\ gate_strokes = <<>>
    /\ gate_filtered = <<>>
    /\ gate_done = FALSE

\* no job has been handed to the handler
InitHandler ==
    /\ handler_pc = "idle"
    /\ frame_count = 0
    /\ strokes1 = <<>>
    /\ candidate_windows = <<>>
    /\ analysis_windows = <<>>
    /\ pass2_files = {}
    /\ out_strokes = <<>>

\* InjuryRiskDetector.__init__: no frame analysed, every counter 0
InitRisk ==
    /\ risk_history = <<>>
    /\ risk_counters = [x \in RiskCategories |-> 0]
    /\ session_summary = NoSummary

\* a run without analysis windows, with the default --stroke_type, before
\* its first frame
InitRun ==
    /\ stroke_type = "serve"
    /\ coarse_mode = FALSE
    /\ classifier_ok = TRUE
    /\ window_start = 0
    /\ process_only_windows = FALSE
    /\ results = <<>>
    /\ all_frames_metrics = <<>>
    /\ pose_frames = <<>>
    /\ raw_segments = <<>>
    /\ detected_strokes = <<>>
    /\ post_done = FALSE

InitLoop ==
    /\ i = 0
    /\ target_track_id = NoneId
    /\ lost_frames = 0
    /\ prev_bbox_center = NoBox
    /\ saved_frame_count = 0
    /\ frame_idx = 0
    /\ is_analysis_frame = FALSE
    /\ detections = <<>>
    /\ tracks = <<>>
    /\ best_box = NoBox
    /\ best_conf = 0
    /\ found = FALSE
    /\ res_entry = <<>>
    /\ yolo_failed = FALSE
    /\ tracker_failed = FALSE
    /\ outcome = "init"
    /\ last_box = NoBox

Init ==
    /\ crop_box_px \in {NoBox, CropBox}
    /\ target_point_px \in {NoBox, ClickPoint}
    /\ step \in {1, 2}
    /\ tracker_ok \in BOOLEAN
    /\ InitLoop
    /\ InitRun
    /\ InitRisk
    /\ InitHandler
    /\ InitGate
    /\ InitSeq
    /\ InitServer
    /\ InitSeg
    /\ InitCls

\* the calls that can raise: the detector runs on analysis frames only, the
\* tracker only when there is one
FrameInputs(TrIn, DeIn) ==
    {in \in [tr : TrIn, de : DeIn, yfail : BOOLEAN, tfail : BOOLEAN] :
        /\ in.yfail => in.de = <<>>
        /\ in.tfail => in.tr = <<>>}

Frame ==
    /\ i < MaxFrames
    /\ \E in \in FrameInputs(TrackInputs, DetInputs) :
          /\ (FrameIdxFromPath(i) % step # 0) => (in.de = <<>> /\ ~in.yfail)
          /\ ~tracker_ok => (in.tr = <<>> /\ ~in.tfail)
          /\ ProcessFrame(in.tr, in.de, in.yfail, in.tfail)

UnreadableFrame ==
    /\ i < MaxFrames
    /\ UnreadableFrameStep

Next == Frame \/ UnreadableFrame

Spec == Init /\ [][Next]_vars

(***************************************************************************)
(* The lock-wait window: an ROI run long enough to pass lock_wait_timeout  *)
(***************************************************************************)
MaxFramesRoi == 92

\* every frame of these runs reports two tracked persons, in either order:
\* identifier 2 at one of Roi2Boxes and identifier 3 at one of Roi3Boxes
Roi2Boxes == {BoxA, BoxS, BoxZ}
Roi3Boxes == {BoxB, BoxZ2}
TrackInputsRoi ==
    UNION {{<<Trk(2, b2, 90), Trk(3, b3, 80)>>, <<Trk(3, b3, 80), Trk(2, b2, 90)>>} :
             <<b2, b3>> \in Roi2Boxes \X Roi3Boxes}

InitRoi ==
    /\ crop_box_px = CropBox
    /\ target_point_px = NoBox
    /\ step = 1
    /\ tracker_ok = TRUE
    /\ InitLoop
    /\ InitRun
    /\ InitRisk
    /\ InitHandler
    /\ InitGate
    /\ InitSeq
    /\ InitServer
    /\ InitSeg
    /\ InitCls

FrameRoi ==
    /\ i < MaxFramesRoi
    /\ \E tr \in TrackInputsRoi : ProcessFrame(tr, <<>>, FALSE, FALSE)

NextRoi == FrameRoi

SpecRoi == InitRoi /\ [][NextRoi]_vars

(***************************************************************************)
(* The loss timeout: a run long enough to lose the target for more than    *)
(* LostTimeout frames                                                      *)
(***************************************************************************)
MaxFramesLong == 303
MaxTracksLong == 1

TrackPoolLong == {Trk(1, BoxE, 80), Trk(2, BoxF, 80)}
TrackInputsLong == {tr \in SeqsUpTo(TrackPoolLong, MaxTracksLong) : DistinctIds(tr)}
DetInputsLong == {<<>>, <<Det(BoxF2, 80)>>}

InitLong ==
    /\ crop_box_px = NoBox
    /\ target_point_px = NoBox
    /\ step = 1
    /\ tracker_ok = TRUE
    /\ InitLoop
    /\ InitRun
    /\ InitRisk
    /\ InitHandler
    /\ InitGate
    /\ InitSeq
    /\ InitServer
    /\ InitSeg
    /\ InitCls

FrameLong ==
    /\ i < MaxFramesLong
    /\ \E tr \in TrackInputsLong, de \in DetInputsLong :
          ProcessFrame(tr, de, FALSE, FALSE)

NextLong == FrameLong

SpecLong == InitLong /\ [][NextLong]_vars

(***************************************************************************)
(* The re-entry scan: runs whose candidates lie around the two radii       *)
(***************************************************************************)
TrackPoolRelock == {Trk(1, BoxE, 80), Trk(2, BoxF, 80), Trk(3, BoxG, 80),
                    Trk(4, BoxK, 80), Trk(5, BoxH, 80)}
TrackInputsRelock == {tr \in SeqsUpTo(TrackPoolRelock, MaxTracks) : DistinctIds(tr)}
DetInputsRelock == {<<>>, <<Det(BoxF2, 80)>>}

FrameRelock ==
    /\ i < MaxFrames
    /\ \E tr \in TrackInputsRelock, de \in DetInputsRelock :
          ProcessFrame(tr, de, FALSE, FALSE)

NextRelock == FrameRelock

SpecRelock == InitLong /\ [][NextRelock]_vars

(***************************************************************************)
(* Specification of one call of classify_stroke_enhanced: the arguments    *)
(* are drawn at the start and the call returns once.                       *)
(***************************************************************************)
MaxHist == 2

WristValues == {Absent, 300, 440, 600}
NoseValues == {Absent, 320}
AbductionValues == {Absent, 40, 60, 90, 120, 135}
HipValues == {Absent, 520}
HipRotationValues == {Absent, 5, -12}
KneeValues == {Absent, 40}
ShoulderXValues == {<<Absent, Absent>>, <<600, 400>>}
HistoryWristValues == {Absent, 320, 460, 480}
TargetTypes == {"none", "serve", "dink", "volley", "groundstroke", "drive"}

MetricInputs ==
    {Metric(w, n, a, h, r, k, sx[1], sx[2]) :
        w \in WristValues, n \in NoseValues, a \in AbductionValues, h \in HipValues,
        r \in HipRotationValues, k \in KneeValues, sx \in ShoulderXValues}

\* earlier frames of the same player: only their wrist height is read
HistoryEntry(w) == Metric(w, Absent, Absent, Absent, Absent, Absent, Absent, Absent)

HistoryInputs ==
    {[k \in 1..Len(ws) |-> HistoryEntry(ws[k])] :
        ws \in SeqsUpTo(HistoryWristValues, MaxHist)}

InitClassify ==
    /\ crop_box_px = NoBox
    /\ target_point_px = NoBox
    /\ step = 1
    /\ tracker_ok = TRUE
    /\ InitLoop
    /\ InitRun
    /\ InitRisk
    /\ InitHandler
    /\ InitGate
    /\ InitSeq
    /\ InitServer
    /\ InitSeg
    /\ cls_metrics \in MetricInputs
    /\ cls_history \in HistoryInputs
    /\ cls_position \in BOOLEAN
    /\ cls_target_type \in TargetTypes
    /\ cls_result = NoResult

Classify ==
    /\ cls_result = NoResult
    /\ cls_result' = classify_stroke_enhanced(cls_metrics, cls_history, cls_position,
                                              cls_target_type)
    /\ UNCHANGED <<cfgVars, loopVars, frameVars, segVars, runVars, riskVars, handlerVars,
                   gateVars, seqVars, serverVars,
                   cls_metrics, cls_history, cls_position, cls_target_type>>

NextClassify == Classify

SpecClassify == InitClassify /\ [][NextClassify]_vars

(***************************************************************************)
(* Specification of one call of classify_stroke_enhanced on the last frame *)
(* of a swing: the wrist rises by the same amount on every frame, the      *)
(* frames before the current one are its history, as detect_segments       *)
(* passes them.                                                            *)
(***************************************************************************)
MaxSwingHist == 3

SwingStarts == {500 + 5 * k : k \in 0..12}
SwingSteps == {10, 20, 30}
SwingHips == {Absent, 500, 520}
SwingTargets == {"none", "serve"}

\* frame k (from 0) of the swing: only the wrist and the hip are measured
SwingFrame(start, st, hip, k) ==
    Metric(start - st * k, Absent, Absent, hip, Absent, Absent, Absent, Absent)

InitSwing ==
    /\ crop_box_px = NoBox
    /\ target_point_px = NoBox
    /\ step = 1
    /\ tracker_ok = TRUE
    /\ InitLoop
    /\ InitRun
    /\ InitRisk
    /\ InitHandler
    /\ InitGate
    /\ InitSeq
    /\ InitServer
    /\ InitSeg
    /\ \E start \in SwingStarts, st \in SwingSteps, hip \in SwingHips,
          n \in 0..MaxSwingHist :
          /\ cls_metrics = SwingFrame(start, st, hip, n)
          /\ cls_history = [k \in 1..n |-> SwingFrame(start, st, hip, k - 1)]
    /\ cls_position = FALSE
    /\ cls_target_type \in SwingTargets
    /\ cls_result = NoResult

SpecSwing == InitSwing /\ [][NextClassify]_vars

(***************************************************************************)
(* StrokeClassifier.detect_segments (classification/classifier.py): the    *)
(* run-length loop over the frames, the filter and the merge pass.  A      *)
(* frame is a metric record with one more field, frame_idx.  Confidences   *)
(* are hundredths, so round(conf_max, 3) leaves them as they are.          *)
(***************************************************************************)
MinSegmentFrames == 3
MergeGap == 3
HistoryWindow == 10

\* the metric dictionary m with "frame_idx": fidx (Absent: no such key)
WithFrameIdx(m, fidx) ==
    [f \in DOMAIN m \cup {"frame_idx"} |-> IF f = "frame_idx" THEN fidx ELSE m[f]]

\* int(metric.get("frame_idx", default))
FrameIdxOf(metric, default) == Get(metric, metric.frame_idx, default)

Segment(s, e, t, c) ==
    [start_frame |-> s, end_frame |-> e, stroke_type |-> t, confidence |-> c]

\* the locals before the first iteration; current_type "none" is None
LoopStart ==
    [current_type |-> "none", start_frame |-> 0, conf_count |-> 0, conf_max |-> 0,
     history |-> <<>>, segments |-> <<>>]

\* variant: the history is never cut
PushHistory_unbounded(history, metric) == Append(history, metric)

\* history.append(metric), cut to the last 10 entries
PushHistory(history, metric) ==
    IF Len(history) + 1 > HistoryWindow
    THEN SubSeq(Append(history, metric), Len(history) + 2 - HistoryWindow,
                Len(history) + 1)
    ELSE Append(history, metric)

\* the segment that closes the current run at frame index end
ClosedRun(st, end) ==
    Segment(st.start_frame, end, st.current_type,
            IF st.conf_count > 0 THEN st.conf_max ELSE 0)

\* variant: the confidence of a run is that of its last frame
LoopStep_lastconf(st, frames, pos, res) ==
    IF res.stroke_type # st.current_type
    THEN [current_type |-> res.stroke_type,
          start_frame |-> FrameIdxOf(frames[pos + 1], pos),
          conf_count |-> 1,
          conf_max |-> res.confidence,
          history |-> PushHistory(st.history, frames[pos + 1]),
          segments |->
              IF st.current_type # "none"
              THEN Append(st.segments,
                          ClosedRun(st, FrameIdxOf(frames[IF pos - 1 >= 0 THEN pos
                                                          ELSE pos + 1],
                                                   FrameIdxOf(frames[pos + 1], pos))))
              ELSE st.segments]
    ELSE [st EXCEPT !.conf_count = @ + 1,
                    !.conf_max = res.confidence,
                    !.history = PushHistory(@, frames[pos + 1])]

\* one iteration: frames[pos + 1] is frames_metrics[i] for i = pos, res its
\* classification
LoopStep(st, frames, pos, res) ==
    IF res.stroke_type # st.current_type
    THEN [current_type |-> res.stroke_type,
          start_frame |-> FrameIdxOf(frames[pos + 1], pos),
          conf_count |-> 1,
          conf_max |-> res.confidence,
          history |-> PushHistory(st.history, frames[pos + 1]),
          segments |->
              IF st.current_type # "none"
              THEN Append(st.segments,
                          ClosedRun(st, FrameIdxOf(frames[IF pos - 1 >= 0 THEN pos
                                                          ELSE pos + 1],
                                                   FrameIdxOf(frames[pos + 1], pos))))
              ELSE st.segments]
    ELSE [st EXCEPT !.conf_count = @ + 1,
                    !.conf_max = Max(@, res.confidence),
                    !.history = PushHistory(@, frames[pos + 1])]

\* the classification of frames[n] inside the loop that has reached state st
ClassifyInLoop(st, frames, n, target) ==
    LoopStep(st, frames, n - 1,
             classify_stroke_enhanced(frames[n], st.history, FALSE, target))

\* the locals after the first n iterations (the set construction makes the
\* evaluation proceed from the first frame to the last)
RECURSIVE LoopAfter(_, _, _)
LoopAfter(frames, n, target) ==
    IF n = 0 THEN LoopStart
    ELSE CHOOSE st \in {ClassifyInLoop(prev, frames, n, target) :
                            prev \in {LoopAfter(frames, n - 1, target)}} : TRUE

\* "Finalize last segment"
FinalizeLast(st, frames) ==
    IF st.current_type # "none"
    THEN Append(st.segments,
                ClosedRun(st, FrameIdxOf(frames[Len(frames)], Len(frames) - 1)))
    ELSE st.segments

Retained(seg) ==
    /\ seg.stroke_type # "none"
    /\ seg.stroke_type # "unknown"
    /\ (seg.end_frame - seg.start_frame + 1) >= MinSegmentFrames

\* variant: runs of unknown frames are retained too
ValidSegments_keepunknown(segs) ==
    SelectSeq(segs, LAMBDA seg : (seg.end_frame - seg.start_frame + 1) >= MinSegmentFrames)

\* valid_segments
ValidSegments(segs) == SelectSeq(segs, Retained)

\* variant: no segment is merged into the one before it
MergeInto_append(merged, seg) == Append(merged, seg)

\* variant: same-type neighbours are merged whatever the gap
MergeInto_anygap(merged, seg) ==
    IF /\ merged # <<>>
       /\ merged[Len(merged)].stroke_type = seg.stroke_type
    THEN [merged EXCEPT ![Len(merged)].end_frame = seg.end_frame,
                        ![Len(merged)].confidence = Max(@, seg.confidence)]
    ELSE Append(merged, seg)

\* the body of the merge loop for one segment of valid_segments
MergeInto(merged, seg) ==
    IF /\ merged # <<>>
       /\ merged[Len(merged)].stroke_type = seg.stroke_type
       /\ seg.start_frame - merged[Len(merged)].end_frame - 1 <= MergeGap
    THEN [merged EXCEPT ![Len(merged)].end_frame = seg.end_frame,
                        ![Len(merged)].confidence = Max(@, seg.confidence)]
    ELSE Append(merged, seg)

RECURSIVE MergeFirst(_, _)
MergeFirst(valid, n) ==
    IF n = 0 THEN <<>> ELSE MergeInto(MergeFirst(valid, n - 1), valid[n])

\* the merge pass over a list of segments
MergePass(valid) == MergeFirst(valid, Len(valid))

detect_segments(frames, target) ==
    IF frames = <<>> THEN <<>>
    ELSE MergePass(ValidSegments(FinalizeLast(LoopAfter(frames, Len(frames), target),
                                              frames)))

\* classify_sequence: frame_votes and history after the first n iterations
RECURSIVE SequenceAfter(_, _, _)
SequenceAfter(frames, n, target) ==
    IF n = 0 THEN [frame_votes |-> <<>>, history |-> <<>>]
    ELSE CHOOSE st \in
            {[frame_votes |->
                 Append(prev.frame_votes,
                        classify_stroke_enhanced(frames[n], prev.history, FALSE,
                                                 target).stroke_type),
              history |-> PushHistory(prev.history, frames[n])] :
                prev \in {SequenceAfter(frames, n - 1, target)}} : TRUE

(***************************************************************************)
(* Specification of one call of detect_segments.  The frames are drawn     *)
(* from a pool of poses; their frame_idx grows from frame to frame (by     *)
(* more than one where frames were skipped) or is missing altogether.      *)
(***************************************************************************)
MaxSegFrames == 5
MaxRun == 10
MaxGapFrames == 4

\* nothing measured: a dink at 0.78
PoseDink == EmptyMetric
\* shoulder abduction 120: no rule accepts
PoseUnknown == Metric(Absent, Absent, 120, Absent, Absent, Absent, Absent, Absent)
\* shoulder abduction 90: a groundstroke at 0.75
PoseGround == Metric(Absent, Absent, 90, Absent, Absent, Absent, Absent, Absent)
\* shoulder abduction 90 with hip rotation: a groundstroke at 0.85
PoseGroundRot == Metric(Absent, Absent, 90, Absent, -12, Absent, Absent, Absent)

Poses == {PoseDink, PoseUnknown, PoseGround, PoseGroundRot}
\* the poses of the frame lists with skipped frames
SkipPoses == {PoseUnknown, PoseGround, PoseGroundRot}
Jumps == {1, 3}
SegTargets == {"none", "groundstroke"}

RECURSIVE SumTo(_, _)
SumTo(js, n) == IF n = 0 THEN 0 ELSE SumTo(js, n - 1) + js[n]

\* poses ps at frame indices 0, js[1], js[1] + js[2], ...
IndexedFrames(ps, js) ==
    [k \in 1..Len(ps) |-> WithFrameIdx(ps[k], SumTo(js, k - 1))]

\* poses ps without a frame_idx key
BareFrames(ps) == [k \in 1..Len(ps) |-> WithFrameIdx(ps[k], Absent)]

\* a dink frames, g frames that are no stroke, b dink frames, consecutive
\* frame indices from first on
RunFrames(a, g, b, first) ==
    [k \in 1..(a + g + b) |->
        WithFrameIdx(IF k <= a \/ k > a + g THEN PoseDink ELSE PoseUnknown,
                     first + k - 1)]

\* the inputs of the call
SegInput(frames) ==
    \/ \E n \in 0..MaxSegFrames :
          \E ps \in [1..n -> SkipPoses], js \in [1..Max(n - 1, 0) -> Jumps] :
             frames = IndexedFrames(ps, js)
    \/ \E n \in 1..MaxSegFrames :
          \E ps \in [1..n -> Poses] : frames = BareFrames(ps)
    \/ \E a \in 0..MaxRun, g \in 0..MaxGapFrames, b \in 0..MaxRun, first \in {0, 7} :
          frames = RunFrames(a, g, b, first)

InitSegments ==
    /\ crop_box_px = NoBox
    /\ target_point_px = NoBox
    /\ step = 1
    /\ tracker_ok = TRUE
    /\ InitLoop
    /\ InitRun
    /\ InitRisk
    /\ InitHandler
    /\ InitGate
    /\ InitSeq
    /\ InitServer
    /\ InitCls
    /\ SegInput(frames_metrics)
    /\ seg_target_type \in SegTargets
    /\ seg_done = FALSE
    /\ segments = <<>>

DetectSegments ==
    /\ ~seg_done
    /\ segments' = detect_segments(frames_metrics, seg_target_type)
    /\ seg_done' = TRUE
    /\ UNCHANGED <<cfgVars, loopVars, frameVars, clsVars, runVars, riskVars, handlerVars,
                   gateVars, seqVars, serverVars, frames_metrics,
                   seg_target_type>>

\* a call of classify_sequence on the same frames
ClassifySequence ==
    /\ ~votes_done
    /\ votes_done' = TRUE
    /\ frame_votes' = SequenceAfter(frames_metrics, Len(frames_metrics),
                                    seg_target_type).frame_votes
    /\ UNCHANGED <<cfgVars, loopVars, frameVars, clsVars, segVars, runVars, riskVars,
                   handlerVars, gateVars, serverVars>>

NextSegments == DetectSegments

SpecSegments == InitSegments /\ [][NextSegments]_vars

\* frame lists with one jump of the frame index: a frames from index 0 on,
\* then b frames from index a - 1 + jump on, all in the pose p
MaxGapRun == 4
MaxJump == 6

GapFrames(a, jump, b, p) ==
    [k \in 1..(a + b) |->
        WithFrameIdx(p, IF k <= a THEN k - 1 ELSE a - 1 + jump + (k - a - 1))]

InitGaps ==
    /\ crop_box_px = NoBox
    /\ target_point_px = NoBox
    /\ step = 1
    /\ tracker_ok = TRUE
    /\ InitLoop
    /\ InitRun
    /\ InitRisk
    /\ InitHandler
    /\ InitGate
    /\ InitSeq
    /\ InitServer
    /\ InitCls
    /\ \E a \in 1..MaxGapRun, jump \in 1..MaxJump, b \in 1..MaxGapRun,
          p \in {PoseDink, PoseGround} :
          frames_metrics = GapFrames(a, jump, b, p)
    /\ seg_target_type \in SegTargets
    /\ seg_done = FALSE
    /\ segments = <<>>

NextGaps == DetectSegments

SpecGaps == InitGaps /\ [][NextGaps]_vars

\* both functions of the classifier on frame lists long enough to fill the
\* history
InitHistory ==
    /\ crop_box_px = NoBox
    /\ target_point_px = NoBox
    /\ step = 1
    /\ tracker_ok = TRUE
    /\ InitLoop
    /\ InitRun
    /\ InitRisk
    /\ InitHandler
    /\ InitGate
    /\ InitSeq
    /\ InitServer
    /\ InitCls
    /\ \E a \in 0..MaxRun, g \in 0..MaxGapFrames, b \in {0, 3, MaxRun}, first \in {0, 7} :
          frames_metrics = RunFrames(a, g, b, first)
    /\ seg_target_type \in SegTargets
    /\ seg_done = FALSE
    /\ segments = <<>>

NextHistory == DetectSegments \/ ClassifySequence

SpecHistory == InitHistory /\ [][NextHistory]_vars

(***************************************************************************)
(* A whole run of track.py main(): the frame loop with the pose step and   *)
(* the two lists it fills, then the stroke post-processing.  Confidences   *)
(* and velocities are hundredths.  Absent marks a key that a stroke        *)
(* dictionary does not have.                                               *)
(***************************************************************************)
Fps == 30
MinCropWidth == 50
MinCropHeight == 80

\* _in_any_window(frame_idx / fps) for one window that starts at window_start
\* and has no end; without windows every frame is inside
InAnyWindow(fidx) == window_start = 0 \/ fidx >= window_start

\* the padded crop of the target box is large enough for the pose model
CropLargeEnough(box) ==
    /\ box # NoBox
    /\ Min(width, box[3] + Max(10, ((box[4] - box[2]) * 15) \div 100))
         - Max(0, box[1] - Max(10, ((box[4] - box[2]) * 15) \div 100)) > MinCropWidth
    /\ Min(height, box[4] + Max(10, ((box[4] - box[2]) * 15) \div 100))
         - Max(0, box[2] - Max(10, ((box[4] - box[2]) * 15) \div 100)) > MinCropHeight

\* the dictionary appended to all_frames_metrics by the frame at loop position
\* pos with file frame index fidx: "frame_idx" is the loop position (time_sec,
\* which nothing reads, is left out)
MetricsOfFrame(pos, fidx) == WithFrameIdx(EmptyMetric, pos)

\* One readable frame of a whole run: pose_found says that the pose model is
\* there and finds landmarks on the crop
ProcessFrameRun(tr_in, de_in, yfail, tfail, pose_found) ==
    /\ FrameStep(tr_in, de_in, yfail, tfail)
    /\ \E collected \in {/\ is_analysis_frame'
                         /\ found'
                         /\ pose_found
                         /\ InAnyWindow(frame_idx')
                         /\ CropLargeEnough(best_box')} :
          /\ all_frames_metrics' =
                IF collected
                THEN Append(all_frames_metrics, MetricsOfFrame(i, frame_idx'))
                ELSE all_frames_metrics
          /\ pose_frames' = IF collected THEN Append(pose_frames, frame_idx')
                            ELSE pose_frames
    /\ results' = IF res_entry' # <<>>
                  THEN Append(results, [frame_idx |-> res_entry'.frame_idx,
                                        track_id |-> res_entry'.track_id])
                  ELSE results
    /\ UNCHANGED <<argVars, postVars, riskVars, handlerVars, gateVars, seqVars, serverVars>>

Stroke(seg, peak, tid, warn) ==
    [start_frame |-> seg.start_frame, end_frame |-> seg.end_frame,
     stroke_type |-> seg.stroke_type, confidence |-> seg.confidence,
     peak_velocity |-> peak, track_id |-> tid, multi_id_warning |-> warn]

\* m.get('wrist_velocity_mag', m.get('wrist_velocity_y', 0.0)): the
\* dictionaries of MetricsOfFrame have neither key
WristVelocityOf(m) == 0

\* max_v of the scan over all_frames_metrics, round(max_v, 2)
PeakVelocity(seg, metrics) ==
    MaxOf({0} \cup {WristVelocityOf(metrics[k]) :
                       k \in {j \in 1..Len(metrics) :
                                 /\ seg.start_frame <= FrameIdxOf(metrics[j], -1)
                                 /\ FrameIdxOf(metrics[j], -1) <= seg.end_frame}})

\* max_v_frame of the scan: s_start until a velocity above max_v is met, then
\* the frame of the first metrics entry that reaches the maximum
PeakFrameIdx(seg, metrics) ==
    LET inside == {j \in 1..Len(metrics) :
                      /\ seg.start_frame <= FrameIdxOf(metrics[j], -1)
                      /\ FrameIdxOf(metrics[j], -1) <= seg.end_frame}
        top == {j \in inside :
                   /\ WristVelocityOf(metrics[j]) > 0
                   /\ \A h \in inside : WristVelocityOf(metrics[h])
                                           <= WristVelocityOf(metrics[j])}
    IN IF top = {} THEN seg.start_frame ELSE FrameIdxOf(metrics[MinOf(top)], -1)

\* args.stroke_type and args.stroke_type.lower() not in ['overall', 'none', '']
IsStrict(st) == st \notin {"overall", "none", ""}

RECURSIVE StrictFirst(_, _, _, _)
StrictFirst(raw, n, st, metrics) ==
    IF n = 0 THEN <<>>
    ELSE IF raw[n].stroke_type = st
         THEN Append(StrictFirst(raw, n - 1, st, metrics),
                     Stroke(raw[n], PeakVelocity(raw[n], metrics), Absent, FALSE))
         ELSE StrictFirst(raw, n - 1, st, metrics)

\* "STRICT FILTERING": detected_strokes before the per-stroke gates
StrictFilter(raw, st, metrics) ==
    IF IsStrict(st)
    THEN StrictFirst(raw, Len(raw), st, metrics)
    ELSE [k \in 1..Len(raw) |-> Stroke(raw[k], Absent, Absent, FALSE)]

\* s['peak_velocity'] and s['peak_frame_idx'] of a segment kept by the
\* stroke-type filter; Absent for a key the dictionary does not have
PeakFields(seg, st, metrics) ==
    IF IsStrict(st)
    THEN [peak_velocity |-> PeakVelocity(seg, metrics),
          peak_frame_idx |-> PeakFrameIdx(seg, metrics)]
    ELSE [peak_velocity |-> Absent, peak_frame_idx |-> Absent]

\* cfg_by_type.get(stroke_key, default); cooldown in tenths of a second
GateCfg(min_conf, min_peak_v, min_len_frames, cooldown) ==
    [min_conf |-> min_conf, min_peak_v |-> min_peak_v,
     min_len_frames |-> min_len_frames, cooldown |-> cooldown]

CfgByType(st) ==
    CASE st = "serve" -> GateCfg(78, 18, 4, 10)
      [] st \in {"groundstroke", "drive"} -> GateCfg(78, 16, 4, 8)
      [] st = "volley" -> GateCfg(75, 10, 3, 6)
      [] st = "dink" -> GateCfg(72, 6, 3, 6)
      [] st = "overhead" -> GateCfg(80, 14, 3, 10)
      [] OTHER -> GateCfg(75, 10, 3, 8)

\* variant: the coarse pass keeps the cooldown of the stroke type
CfgOfRun_keepcooldown(st, coarse) ==
    IF coarse
    THEN GateCfg(Max(55, CfgByType(st).min_conf - 18),
                 Max(0, CfgByType(st).min_peak_v \div 2),
                 CfgByType(st).min_len_frames, CfgByType(st).cooldown)
    ELSE CfgByType(st)

\* the gates in force: --coarse_mode loosens them
CfgOfRun(st, coarse) ==
    IF coarse
    THEN GateCfg(Max(55, CfgByType(st).min_conf - 18),
                 Max(0, CfgByType(st).min_peak_v \div 2),
                 CfgByType(st).min_len_frames, 0)
    ELSE CfgByType(st)

CooldownFrames(cfg) == (cfg.cooldown * Fps) \div 10

\* variant: the peak-velocity gate is left out
PassesGates_nopeak(s, cfg) ==
    /\ (Get(s, s.end_frame, s.start_frame) - s.start_frame + 1) >= cfg.min_len_frames
    /\ s.confidence >= cfg.min_conf

\* the three `continue` gates of the filter loop
PassesGates(s, cfg) ==
    /\ (Get(s, s.end_frame, s.start_frame) - s.start_frame + 1) >= cfg.min_len_frames
    /\ s.confidence >= cfg.min_conf
    /\ Get(s, s.peak_velocity, 0) >= cfg.min_peak_v

GateInto(filtered, s, cfg) ==
    IF ~PassesGates(s, cfg) THEN filtered
    ELSE IF /\ CooldownFrames(cfg) > 0
            /\ filtered # <<>>
            /\ s.start_frame <= Get(filtered[Len(filtered)],
                                    filtered[Len(filtered)].end_frame,
                                    filtered[Len(filtered)].start_frame)
                                + CooldownFrames(cfg)
         THEN filtered
         ELSE Append(filtered, s)

RECURSIVE GateFirst(_, _, _)
GateFirst(strokes, n, cfg) ==
    IF n = 0 THEN <<>> ELSE GateInto(GateFirst(strokes, n - 1, cfg), strokes[n], cfg)

\* "Per-stroke filtering + cooldown" (detect_segments returns the segments
\* in the order of their start_frame, which the sort keeps)
GateFilter(strokes, cfg) == GateFirst(strokes, Len(strokes), cfg)

\* the records of the stroke's window that carry an identifier
RecordsInWindow(s, res) ==
    {k \in 1..Len(res) :
        /\ s.start_frame <= res[k].frame_idx
        /\ res[k].frame_idx <= Get(s, s.end_frame, s.start_frame)
        /\ res[k].track_id # -1}

IdsInWindow(s, res) == {res[k].track_id : k \in RecordsInWindow(s, res)}

IdCount(id, s, res) ==
    Cardinality({k \in RecordsInWindow(s, res) : res[k].track_id = id})

FirstRecordOf(id, s, res) ==
    MinOf({k \in RecordsInWindow(s, res) : res[k].track_id = id})

\* max(id_counts.keys(), key=...): the most frequent identifier, the one seen
\* first among equals
DominantId(s, res) ==
    CHOOSE id \in IdsInWindow(s, res) :
        \A other \in IdsInWindow(s, res) :
            \/ IdCount(id, s, res) > IdCount(other, s, res)
            \/ /\ IdCount(id, s, res) = IdCount(other, s, res)
               /\ FirstRecordOf(id, s, res) <= FirstRecordOf(other, s, res)

\* "SINGLE-ID INVARIANT" for one stroke
ValidatedStroke(s, res, tid) ==
    IF IdsInWindow(s, res) = {}
    THEN [s EXCEPT !.track_id = IF tid # NoneId /\ tid # 0 THEN tid ELSE -1]
    ELSE IF Cardinality(IdsInWindow(s, res)) = 1
         THEN [s EXCEPT !.track_id = CHOOSE id \in IdsInWindow(s, res) : TRUE]
         ELSE [s EXCEPT !.track_id = DominantId(s, res), !.multi_id_warning = TRUE]

ValidateStrokes(strokes, res, tid) ==
    [k \in 1..Len(strokes) |-> ValidatedStroke(strokes[k], res, tid)]

\* "Fallback if classifier failed or no metrics"
FallbackStroke(st) ==
    [start_frame |-> 0, end_frame |-> Absent, stroke_type |-> st, confidence |-> 100,
     peak_velocity |-> Absent, track_id |-> Absent, multi_id_warning |-> FALSE]

\* detected_strokes of a run whose classifier returned raw
StrokesOfRun(raw, st, coarse, metrics, res, tid) ==
    ValidateStrokes(GateFilter(StrictFilter(raw, st, metrics), CfgOfRun(st, coarse)),
                    res, tid)

\* The post-processing after the last frame
PostProcess ==
    /\ ~post_done
    /\ post_done' = TRUE
    /\ IF classifier_ok /\ Len(all_frames_metrics) > 0
       THEN /\ raw_segments' = detect_segments(all_frames_metrics, stroke_type)
            /\ detected_strokes' =
                  StrokesOfRun(raw_segments', stroke_type, coarse_mode,
                               all_frames_metrics, results, target_track_id)
       ELSE /\ raw_segments' = <<>>
            /\ detected_strokes' = <<FallbackStroke(stroke_type)>>
    /\ UNCHANGED <<cfgVars, loopVars, frameVars, clsVars, segVars, argVars, listVars,
                   riskVars, handlerVars, gateVars, seqVars, serverVars>>

(***************************************************************************)
(* Specification of whole runs over a few files                            *)
(***************************************************************************)
MaxRunFiles == 4

StrokeTypeArgs == {"serve", "dink", "overall"}
WindowStarts == {0, 2}
TrackInputsRun == {<<>>, <<Trk(1, BoxE, 80)>>}

InitWholeRun ==
    /\ crop_box_px = NoBox
    /\ target_point_px = NoBox
    /\ step \in {1, 2}
    /\ tracker_ok = TRUE
    /\ InitLoop
    /\ InitCls
    /\ InitSeg
    /\ stroke_type \in StrokeTypeArgs
    /\ coarse_mode \in BOOLEAN
    /\ classifier_ok \in BOOLEAN
    /\ window_start \in WindowStarts
    /\ process_only_windows \in BOOLEAN
    /\ process_only_windows => window_start > 0
    /\ InitRisk
    /\ InitHandler
    /\ InitGate
    /\ InitSeq
    /\ InitServer
    /\ results = <<>>
    /\ all_frames_metrics = <<>>
    /\ pose_frames = <<>>
    /\ raw_segments = <<>>
    /\ detected_strokes = <<>>
    /\ post_done = FALSE

FrameRun ==
    /\ ~post_done
    /\ i < MaxRunFiles
    /\ \E tr \in TrackInputsRun, pose_found \in BOOLEAN :
          ProcessFrameRun(tr, <<>>, FALSE, FALSE, pose_found)

UnreadableFrameRun ==
    /\ ~post_done
    /\ i < MaxRunFiles
    /\ UnreadableFrameStep

NextRun == FrameRun \/ UnreadableFrameRun \/ PostProcess

SpecRun == InitWholeRun /\ [][NextRun]_vars

(***************************************************************************)
(* InjuryRiskDetector (biomechanics/injury_risk.py).  A biomechanics       *)
(* dictionary keeps the fields analyze_frame branches on; the angles, which *)
(* are only copied into messages, are left out.  Percentages are tenths of *)
(* a percent.                                                              *)
(***************************************************************************)
MaxRiskFrames == 2
ShoulderOverusePercentage == 10
PoorKineticChainPercentage == 20
KneeStressPercentage == 15
ElbowStrainPercentage == 15

Biomechanics(risk_level, power_generation, stress_level, within_optimal) ==
    [shoulder_abduction |-> [risk_level |-> risk_level],
     hip_rotation |-> [power_generation |-> power_generation],
     knee_flexion |-> [stress_level |-> stress_level],
     elbow_flexion |-> [within_optimal |-> within_optimal]]

\* variant: only the critical tier counts
ShoulderOveruse_criticalonly(biomechanics, st) ==
    /\ biomechanics.shoulder_abduction.risk_level = "critical"
    /\ st # "overhead"

\* 1. high shoulder abduction outside of the overhead smash
ShoulderOveruse(biomechanics, st) ==
    /\ biomechanics.shoulder_abduction.risk_level \in {"high", "critical"}
    /\ st # "overhead"

\* variant: the poor kinetic chain is counted for every stroke
PoorKineticChain_anystroke(biomechanics, st) ==
    biomechanics.hip_rotation.power_generation = "poor"

\* 2. a power stroke without hip rotation
PoorKineticChain(biomechanics, st) ==
    /\ biomechanics.hip_rotation.power_generation = "poor"
    /\ st \in {"groundstroke", "serve", "overhead"}

\* 3. excessive knee flexion
KneeStress(biomechanics) == biomechanics.knee_flexion.stress_level = "high"

\* 4. elbow outside the optimal range of the stroke
ElbowOutsideOptimal(biomechanics) == ~biomechanics.elbow_flexion.within_optimal

Risk(type, severity) == [type |-> type, severity |-> severity]

\* the list analyze_frame returns
RisksOf(biomechanics, st) ==
    (IF ShoulderOveruse(biomechanics, st)
     THEN <<Risk("shoulder_overuse",
                 IF biomechanics.shoulder_abduction.risk_level = "critical"
                 THEN "critical" ELSE "high")>>
     ELSE <<>>)
    \o (IF PoorKineticChain(biomechanics, st)
        THEN <<Risk("poor_kinetic_chain", "medium")>> ELSE <<>>)
    \o (IF KneeStress(biomechanics) THEN <<Risk("knee_stress", "medium")>> ELSE <<>>)

Bump(cond) == IF cond THEN 1 ELSE 0

\* the counters after one more frame: elbow_strain is raised both as the
\* consequence of a poor kinetic chain and for an elbow outside its range
CountersAfter(counters, biomechanics, st) ==
    [x \in RiskCategories |->
        counters[x]
        + (CASE x = "shoulder_overuse" -> Bump(ShoulderOveruse(biomechanics, st))
             [] x = "poor_kinetic_chain" -> Bump(PoorKineticChain(biomechanics, st))
             [] x = "knee_stress" -> Bump(KneeStress(biomechanics))
             [] x = "elbow_strain" -> Bump(PoorKineticChain(biomechanics, st))
                                      + Bump(ElbowOutsideOptimal(biomechanics)))]

analyze_frame(biomechanics, st) ==
    /\ risk_counters' = CountersAfter(risk_counters, biomechanics, st)
    /\ risk_history' = Append(risk_history,
                              [biomechanics |-> biomechanics,
                               risks |-> RisksOf(biomechanics, st),
                               stroke_type |-> st])
    /\ UNCHANGED <<cfgVars, loopVars, frameVars, clsVars, segVars, runVars,
                   handlerVars, gateVars, seqVars, serverVars, session_summary>>

\* the pairs <<counter, total_frames>> up to 130 frames whose quotient times
\* 100 lies halfway between two tenths in exact arithmetic and a hair off it
\* in double precision, so that round(_, 1) leaves the nearest even tenth
PercentRoundsUp == {<<49, 80>>, <<93, 80>>}
PercentRoundsDown == {<<23, 80>>, <<51, 80>>, <<87, 80>>}

\* round to the nearest tenth, halves to the even one
RoundHalfEven(num, den) ==
    IF 2 * (num % den) > den THEN (num \div den) + 1
    ELSE IF 2 * (num % den) < den THEN num \div den
    ELSE IF (num \div den) % 2 = 0 THEN num \div den
    ELSE (num \div den) + 1

\* round(counter / total_frames * 100, 1) in tenths of a percent
Percentage(counter, total_frames) ==
    RoundHalfEven(1000 * counter, total_frames)
    + (IF <<counter, total_frames>> \in PercentRoundsUp THEN 1
       ELSE IF <<counter, total_frames>> \in PercentRoundsDown THEN -1 ELSE 0)

\* counter / total_frames * 100 > threshold
Above(counter, total_frames, threshold) == 100 * counter > threshold * total_frames

AlertsOf(counters, total_frames) ==
    (IF Above(counters["shoulder_overuse"], total_frames, ShoulderOverusePercentage)
     THEN <<"shoulder_overuse">> ELSE <<>>)
    \o (IF Above(counters["poor_kinetic_chain"], total_frames, PoorKineticChainPercentage)
        THEN <<"technique">> ELSE <<>>)
    \o (IF Above(counters["knee_stress"], total_frames, KneeStressPercentage)
        THEN <<"knee_stress">> ELSE <<>>)

\* variant: one alert already counts as high
OverallRisk_onealert(alerts) == IF Len(alerts) >= 1 THEN "high" ELSE "low"

OverallRisk(alerts) ==
    IF Len(alerts) >= 2 THEN "high" ELSE IF Len(alerts) = 1 THEN "medium" ELSE "low"

\* the titles of the recommendations, in the order they are appended
RecommendationsOf(counters, total_frames) ==
    (IF Above(counters["shoulder_overuse"], total_frames, ShoulderOverusePercentage)
     THEN <<"Reduce Shoulder Strain">> ELSE <<>>)
    \o (IF Above(counters["poor_kinetic_chain"], total_frames, PoorKineticChainPercentage)
        THEN <<"Improve Power Generation">> ELSE <<>>)
    \o (IF Above(counters["knee_stress"], total_frames, KneeStressPercentage)
        THEN <<"Protect Your Knees">> ELSE <<>>)
    \o (IF Above(counters["elbow_strain"], total_frames, ElbowStrainPercentage)
        THEN <<"Elbow Positioning">> ELSE <<>>)
    \o (IF OverallRisk(AlertsOf(counters, total_frames)) = "low"
        THEN <<"Excellent Biomechanics">> ELSE <<>>)

SessionSummary(history, counters) ==
    IF Len(history) = 0
    THEN [total_frames |-> 0, overall_risk |-> "unknown", alerts |-> <<>>,
          recommendations |-> <<>>]
    ELSE [total_frames |-> Len(history),
          risk_counters |-> counters,
          percentages |-> [x \in RiskCategories |-> Percentage(counters[x], Len(history))],
          alerts |-> AlertsOf(counters, Len(history)),
          recommendations |-> RecommendationsOf(counters, Len(history)),
          overall_risk |-> OverallRisk(AlertsOf(counters, Len(history)))]

get_session_summary ==
    /\ session_summary' = SessionSummary(risk_history, risk_counters)
    /\ UNCHANGED <<cfgVars, loopVars, frameVars, clsVars, segVars, runVars,
                   handlerVars, gateVars, seqVars, serverVars, risk_history, risk_counters>>

reset ==
    /\ risk_history' = <<>>
    /\ risk_counters' = [x \in RiskCategories |-> 0]
    /\ UNCHANGED <<cfgVars, loopVars, frameVars, clsVars, segVars, runVars,
                   handlerVars, gateVars, seqVars, serverVars, session_summary>>

RiskLevels == {"safe", "high", "critical"}
PowerGenerations == {"good", "poor"}
StressLevels == {"normal", "high"}
RiskStrokes == {"serve", "overhead", "dink", "groundstroke"}

\* a detector that has analysed nothing, outside of any run
InitDetector ==
    /\ crop_box_px = NoBox
    /\ target_point_px = NoBox
    /\ step = 1
    /\ tracker_ok = TRUE
    /\ InitLoop
    /\ InitRun
    /\ InitCls
    /\ InitSeg
    /\ InitRisk
    /\ InitHandler
    /\ InitGate
    /\ InitSeq
    /\ InitServer

AnalyzeFrame ==
    /\ Len(risk_history) < MaxRiskFrames
    /\ \E risk_level \in RiskLevels, power_generation \in PowerGenerations,
          stress_level \in StressLevels, within_optimal \in BOOLEAN, st \in RiskStrokes :
           analyze_frame(Biomechanics(risk_level, power_generation, stress_level,
                                      within_optimal), st)

NextDetector == AnalyzeFrame \/ get_session_summary \/ reset

SpecDetector == InitDetector /\ [][NextDetector]_vars

\* the detector between two summaries: frames are analysed and the session
\* is reset
NextFrames == AnalyzeFrame \/ reset

SpecFrames == InitDetector /\ [][NextFrames]_vars

(***************************************************************************)
(* Long sessions of the detector: frames whose shoulder angle (whole       *)
(* degrees) is rated by calculate_shoulder_abduction_validated of          *)
(* biomechanics/angles.py, fed in at most two runs of equal frames, and a  *)
(* summary asked for at the end of the session, as track.py does.          *)
(***************************************************************************)
ShoulderSafeMax == 120
ShoulderCautionMax == 140
ShoulderHighRiskMax == 160
OverheadExceptionMin == 120
OverheadExceptionMax == 160

\* the risk_level of the dictionary calculate_shoulder_abduction_validated
\* returns for an angle
calculate_shoulder_abduction_validated(angle, st) ==
    IF st = "overhead" /\ OverheadExceptionMin <= angle /\ angle <= OverheadExceptionMax
    THEN "safe"
    ELSE IF angle < ShoulderSafeMax THEN "safe"
    ELSE IF angle < ShoulderCautionMax THEN "caution"
    ELSE IF angle < ShoulderHighRiskMax THEN "high"
    ELSE "critical"

SessionFrames == 100
ShoulderFrames == 15
ShoulderAngle == 150

\* what analyze_frame is called with for one frame of a session
SessionFrame(angle, power_generation, stress_level, within_optimal, st) ==
    [biomechanics |-> Biomechanics(calculate_shoulder_abduction_validated(angle, st),
                                   power_generation, stress_level, within_optimal),
     stroke_type |-> st]

SessionKinds ==
    {SessionFrame(100, "good", "normal", TRUE, "dink"),
     SessionFrame(ShoulderAngle, "good", "normal", TRUE, "serve"),
     SessionFrame(100, "good", "high", TRUE, "dink"),
     SessionFrame(100, "poor", "normal", TRUE, "serve"),
     SessionFrame(170, "good", "normal", TRUE, "overhead"),
     SessionFrame(100, "good", "normal", FALSE, "dink")}

\* the call that made entry k of the history
CallOf(k) == [biomechanics |-> risk_history[k].biomechanics,
              stroke_type |-> risk_history[k].stroke_type]

\* the session so far is one run of equal frames
OneRun == \A k \in 1..Len(risk_history) : CallOf(k) = CallOf(1)

SessionFrameStep ==
    /\ session_summary = NoSummary
    /\ Len(risk_history) < SessionFrames
    /\ \E f \in SessionKinds :
          /\ IF OneRun THEN TRUE ELSE f = CallOf(Len(risk_history))
          /\ analyze_frame(f.biomechanics, f.stroke_type)

NextSession == SessionFrameStep \/ get_session_summary

SpecSession == InitDetector /\ [][NextSession]_vars

(***************************************************************************)
(* Specification of the per-stroke filtering alone: detected_strokes is    *)
(* drawn in the order of start_frame, as the strict filter leaves it, and  *)
(* the loop runs once.  peak_velocity is drawn as if the per-frame metrics *)
(* carried wrist velocities.                                               *)
(***************************************************************************)
MaxGateStrokes == 3

GateStarts == {0, 20, 34, 35}
GateLengths == {3, 5}
GateConfidences == {75, 85}
GatePeaks == {0, 8, 20}
GateStrokeTypes == {"serve", "dink", "overall"}

\* what is drawn for one start_frame: no stroke there, or its length,
\* confidence and peak velocity
NoStroke == <<>>
GateChoices == {NoStroke} \cup (GateLengths \X GateConfidences \X GatePeaks)

RECURSIVE GateList(_, _, _)
GateList(f, starts, st) ==
    IF starts = {} THEN <<>>
    ELSE LET b == MinOf(starts)
         IN (IF f[b] = NoStroke THEN <<>>
             ELSE <<Stroke([start_frame |-> b, end_frame |-> b + f[b][1] - 1,
                            stroke_type |-> IF IsStrict(st) THEN st ELSE "serve",
                            confidence |-> f[b][2]],
                           IF IsStrict(st) THEN f[b][3] ELSE Absent, Absent, FALSE)>>)
            \o GateList(f, starts \ {b}, st)

GateInputs(st) ==
    {GateList(f, GateStarts, st) :
        f \in {g \in [GateStarts -> GateChoices] :
                  Cardinality({b \in GateStarts : g[b] # NoStroke}) <= MaxGateStrokes}}

InitGateRun ==
    /\ crop_box_px = NoBox
    /\ target_point_px = NoBox
    /\ step = 1
    /\ tracker_ok = TRUE
    /\ InitLoop
    /\ InitCls
    /\ InitSeg
    /\ stroke_type \in GateStrokeTypes
    /\ coarse_mode \in BOOLEAN
    /\ classifier_ok = TRUE
    /\ window_start = 0
    /\ process_only_windows = FALSE
    /\ InitRisk
    /\ InitHandler
    /\ results = <<>>
    /\ all_frames_metrics = <<>>
    /\ pose_frames = <<>>
    /\ raw_segments = <<>>
    /\ detected_strokes = <<>>
    /\ post_done = FALSE
    /\ InitSeq
    /\ InitServer
    /\ gate_strokes \in GateInputs(stroke_type)
    /\ gate_filtered = <<>>
    /\ gate_done = FALSE

\* "Per-stroke filtering + cooldown"
GatePass ==
    /\ ~gate_done
    /\ gate_done' = TRUE
    /\ gate_filtered' = GateFilter(gate_strokes, CfgOfRun(stroke_type, coarse_mode))
    /\ UNCHANGED <<cfgVars, loopVars, frameVars, clsVars, segVars, runVars, riskVars,
                   handlerVars, seqVars, serverVars, gate_strokes>>

NextGate == GatePass

SpecGate == InitGateRun /\ [][NextGate]_vars

(***************************************************************************)
(* handler.py: one job, with the two-pass flow for long videos.  startSec  *)
(* and endSec of a stroke are hundredths of a second, as track.py rounds   *)
(* them.  Window bounds are ticks of 1 / (10 * Fps) second, so that frame  *)
(* k of the 30 fps extraction lies at tick 10 * k and one hundredth of a   *)
(* second is Fps \div 10 ticks.                                            *)
(***************************************************************************)
TwoPassMinSec == 20
Margin == 150
MergeSlack == 25
MaxStrokes1 == 2

\* hundredths of a second in ticks
Ticks(h) == h * (Fps \div 10)

\* duration_sec = frame_count / fps
DurationOf(fc) == 10 * fc

use_two_pass(fc) == DurationOf(fc) >= Ticks(100 * TwoPassMinSec)

StrokeSec(startSec, endSec) == [startSec |-> startSec, endSec |-> endSec]

\* s0 and s1 of one stroke: a missing or zero value falls back to 0.0 and s0
StrokeStart(s) == IF s.startSec \in {Absent, 0} THEN 0 ELSE Ticks(s.startSec)
StrokeEnd(s) == IF s.endSec \in {Absent, 0} THEN StrokeStart(s) ELSE Ticks(s.endSec)

\* the window around one stroke, clipped to the video
WindowOf(s, duration) ==
    <<Max(0, StrokeStart(s) - Ticks(Margin)), Min(duration, StrokeEnd(s) + Ticks(Margin))>>

\* the windows of the strokes that are not empty after clipping
RECURSIVE WindowsOf(_, _)
WindowsOf(strokes, duration) ==
    IF strokes = <<>> THEN <<>>
    ELSE (IF WindowOf(Head(strokes), duration)[2] > WindowOf(Head(strokes), duration)[1]
          THEN <<WindowOf(Head(strokes), duration)>> ELSE <<>>)
         \o WindowsOf(Tail(strokes), duration)

\* tuple order of Python
WindowBefore(a, b) == a[1] < b[1] \/ (a[1] = b[1] /\ a[2] <= b[2])

RECURSIVE InsertWindow(_, _)
InsertWindow(sorted, w) ==
    IF sorted = <<>> THEN <<w>>
    ELSE IF WindowBefore(Head(sorted), w)
         THEN <<Head(sorted)>> \o InsertWindow(Tail(sorted), w)
         ELSE <<w>> \o sorted

\* windows.sort()
RECURSIVE SortWindows(_)
SortWindows(ws) ==
    IF ws = <<>> THEN <<>>
    ELSE InsertWindow(SortWindows(SubSeq(ws, 1, Len(ws) - 1)), ws[Len(ws)])

\* a loop that joins two windows only when they overlap
MergeWindow_overlaponly(acc, w) ==
    IF acc = <<>> \/ w[1] > acc[Len(acc)][2]
    THEN Append(acc, w)
    ELSE [acc EXCEPT ![Len(acc)][2] = Max(@, w[2])]

\* one turn of the loop that builds `merged`
MergeWindow(acc, w) ==
    IF acc = <<>> \/ w[1] > acc[Len(acc)][2] + Ticks(MergeSlack)
    THEN Append(acc, w)
    ELSE [acc EXCEPT ![Len(acc)][2] = Max(@, w[2])]

RECURSIVE MergeWindows(_, _)
MergeWindows(acc, ws) ==
    IF ws = <<>> THEN acc ELSE MergeWindows(MergeWindow(acc, Head(ws)), Tail(ws))

\* the list `merged` built from the strokes of the first pass
MergedWindows(strokes, duration) ==
    MergeWindows(<<>>, SortWindows(WindowsOf(strokes, duration)))

\* "%.2f" of a bound and float() of it in track.py: the nearest hundredth
FormatAndParse(t) == Ticks(RoundHalfEven(t, Fps \div 10))

\* windows_sec of the run that gets the formatted windows: bounds in order,
\* not below 0
ParseWindows(ws) ==
    [k \in 1..Len(ws) |->
        <<Max(0, Min(FormatAndParse(ws[k][1]), FormatAndParse(ws[k][2]))),
          Max(0, Max(FormatAndParse(ws[k][1]), FormatAndParse(ws[k][2])))>>]

\* _in_any_window(frame index / fps) of track.py for a list of windows
InAnyWindowOf(fi, ws) ==
    \/ ws = <<>>
    \/ \E k \in 1..Len(ws) : ws[k][1] <= 10 * fi /\ 10 * fi <= ws[k][2]

\* all_files of a run of track.py over fc frame files
FilesOfRun(fc, ws, only_windows) ==
    IF only_windows /\ ws # <<>> /\ fc > 0
    THEN {fi \in 0..(fc - 1) : InAnyWindowOf(fi, ws)}
    ELSE 0..(fc - 1)

FrameCounts == {0, 450, 600, 620}
StrokePool == {StrokeSec(0, 0), StrokeSec(200, 230), StrokeSec(530, 560),
               StrokeSec(555, 600), StrokeSec(1950, 2000)}
Strokes1Inputs == UNION {[1..n -> StrokePool] : n \in 0..MaxStrokes1}
Strokes2Inputs == {<<>>, <<StrokeSec(210, 225)>>}

\* the job arrives, the video is downloaded and its frames are extracted
ExtractFrames ==
    /\ handler_pc = "idle"
    /\ \E fc \in FrameCounts :
          /\ frame_count' = fc
          /\ handler_pc' = IF fc > 0 THEN "extracted" ELSE "error"
    /\ UNCHANGED <<strokes1, candidate_windows, analysis_windows, pass2_files,
                   out_strokes>>
    /\ UNCHANGED <<cfgVars, loopVars, frameVars, clsVars, segVars, runVars, riskVars,
                   gateVars, seqVars, serverVars>>

\* PASS 1: the coarse run over every fifth frame
Pass1 ==
    /\ handler_pc = "extracted"
    /\ use_two_pass(frame_count)
    /\ \E strokes \in Strokes1Inputs, failed \in BOOLEAN :
          IF failed
          THEN handler_pc' = "error" /\ UNCHANGED strokes1
          ELSE handler_pc' = "pass1" /\ strokes1' = strokes
    /\ UNCHANGED <<frame_count, candidate_windows, analysis_windows, pass2_files,
                   out_strokes>>
    /\ UNCHANGED <<cfgVars, loopVars, frameVars, clsVars, segVars, runVars, riskVars,
                   gateVars, seqVars, serverVars>>

\* the candidate windows, PASS 2 inside them, and the merge of the outputs
Pass2 ==
    /\ handler_pc = "pass1"
    /\ candidate_windows' = MergedWindows(strokes1, DurationOf(frame_count))
    /\ analysis_windows' = ParseWindows(candidate_windows')
    /\ pass2_files' = FilesOfRun(frame_count, analysis_windows',
                                 candidate_windows' # <<>>)
    /\ \E strokes \in Strokes2Inputs, failed \in BOOLEAN :
          IF failed
          THEN handler_pc' = "error2" /\ UNCHANGED out_strokes
          ELSE /\ handler_pc' = "done"
               /\ out_strokes' = IF strokes = <<>> THEN strokes1 ELSE strokes
    /\ UNCHANGED <<frame_count, strokes1>>
    /\ UNCHANGED <<cfgVars, loopVars, frameVars, clsVars, segVars, runVars, riskVars,
                   gateVars, seqVars, serverVars>>

\* the single pass of a short video
SinglePass ==
    /\ handler_pc = "extracted"
    /\ ~use_two_pass(frame_count)
    /\ \E strokes \in Strokes2Inputs, failed \in BOOLEAN :
          IF failed
          THEN handler_pc' = "error" /\ UNCHANGED out_strokes
          ELSE handler_pc' = "done" /\ out_strokes' = strokes
    /\ UNCHANGED <<frame_count, strokes1, candidate_windows, analysis_windows,
                   pass2_files>>
    /\ UNCHANGED <<cfgVars, loopVars, frameVars, clsVars, segVars, runVars, riskVars,
                   gateVars, seqVars, serverVars>>

InitJob ==
    /\ crop_box_px = NoBox
    /\ target_point_px = NoBox
    /\ step = 1
    /\ tracker_ok = TRUE
    /\ InitLoop
    /\ InitRun
    /\ InitCls
    /\ InitSeg
    /\ InitRisk
    /\ InitHandler
    /\ InitGate
    /\ InitSeq
    /\ InitServer

NextHandler == ExtractFrames \/ Pass1 \/ Pass2 \/ SinglePass

SpecHandler == InitJob /\ [][NextHandler]_vars

(***************************************************************************)
(* The local job server (local_server.py).  Flask serves every request in  *)
(* a thread of its own (threaded=True) and /run starts one background      *)
(* thread per job; the threads share the dictionary jobs without a lock.   *)
(* One step of a thread is one statement that reads or writes jobs.  Job   *)
(* ids are 1, 2, ... in the order of the /run requests.                    *)
(***************************************************************************)
MaxJobs == 2
JobIds == 1..MaxJobs

\* what handler(job) gives back: one of two result dictionaries, or it raises
HandlerResults == {"analysis", "error_report"}
Raised == "raised"

notServerVars == <<cfgVars, loopVars, frameVars, clsVars, segVars, runVars, riskVars,
                   handlerVars, gateVars, seqVars>>

\* POST /run: the job is entered as IN_QUEUE and its thread is started
run_async ==
    /\ Len(jobs) < MaxJobs
    /\ jobs' = Append(jobs, [status |-> "IN_QUEUE", output |-> NoOutput,
                             error |-> NoOutput])
    /\ worker_pc' = Append(worker_pc, "start")
    /\ result' = Append(result, NoOutput)
    /\ UNCHANGED <<status_pc, status_job, response>>
    /\ UNCHANGED notServerVars

\* process_job_async, line 38
WorkerStart(j) ==
    /\ worker_pc[j] = "start"
    /\ jobs' = [jobs EXCEPT ![j].status = "IN_PROGRESS"]
    /\ worker_pc' = [worker_pc EXCEPT ![j] = "handler"]
    /\ UNCHANGED <<result, status_pc, status_job, response>>
    /\ UNCHANGED notServerVars

\* process_job_async, line 47: handler(job) returns or raises
WorkerHandler(j) ==
    /\ worker_pc[j] = "handler"
    /\ \E r \in HandlerResults \cup {Raised} :
          /\ result' = [result EXCEPT ![j] = r]
          /\ worker_pc' = [worker_pc EXCEPT ![j] = IF r = Raised THEN "except"
                                                   ELSE "returned"]
    /\ UNCHANGED <<jobs, status_pc, status_job, response>>
    /\ UNCHANGED notServerVars

\* process_job_async, line 50
WorkerCompleted(j) ==
    /\ worker_pc[j] = "returned"
    /\ jobs' = [jobs EXCEPT ![j].status = "COMPLETED"]
    /\ worker_pc' = [worker_pc EXCEPT ![j] = "completed"]
    /\ UNCHANGED <<result, status_pc, status_job, response>>
    /\ UNCHANGED notServerVars

\* process_job_async, line 51 (the webhook call that follows changes nothing
\* in jobs and its failures are caught)
WorkerOutput(j) ==
    /\ worker_pc[j] = "completed"
    /\ jobs' = [jobs EXCEPT ![j].output = result[j]]
    /\ worker_pc' = [worker_pc EXCEPT ![j] = "done"]
    /\ UNCHANGED <<result, status_pc, status_job, response>>
    /\ UNCHANGED notServerVars

\* process_job_async, line 73
WorkerFailed(j) ==
    /\ worker_pc[j] = "except"
    /\ jobs' = [jobs EXCEPT ![j].status = "FAILED"]
    /\ worker_pc' = [worker_pc EXCEPT ![j] = "failed"]
    /\ UNCHANGED <<result, status_pc, status_job, response>>
    /\ UNCHANGED notServerVars

\* process_job_async, line 74
WorkerError(j) ==
    /\ worker_pc[j] = "failed"
    /\ jobs' = [jobs EXCEPT ![j].error = "exception"]
    /\ worker_pc' = [worker_pc EXCEPT ![j] = "done"]
    /\ UNCHANGED <<result, status_pc, status_job, response>>
    /\ UNCHANGED notServerVars

\* GET /status/<job_id>, lines 141-148: 404 for an unknown job, else the
\* response starts with the status read at line 147
StatusRead ==
    /\ status_pc \in {"idle", "returned"}
    /\ \E j \in JobIds :
          /\ status_job' = j
          /\ IF j > Len(jobs)
             THEN /\ response' = [NoResponse EXCEPT !.error = "Job not found"]
                  /\ status_pc' = "returned"
             ELSE /\ response' = [NoResponse EXCEPT !.id = j,
                                                    !.status = jobs[j].status]
                  /\ status_pc' = "if"
    /\ UNCHANGED <<jobs, worker_pc, result>>
    /\ UNCHANGED notServerVars

\* get_status, line 150: the status is read again
StatusIfCompleted ==
    /\ status_pc = "if"
    /\ status_pc' = IF jobs[status_job].status = "COMPLETED" THEN "output" ELSE "elif"
    /\ UNCHANGED <<jobs, worker_pc, result, status_job, response>>
    /\ UNCHANGED notServerVars

\* get_status, line 151
StatusOutput ==
    /\ status_pc = "output"
    /\ response' = [response EXCEPT !.output = jobs[status_job].output]
    /\ status_pc' = "returned"
    /\ UNCHANGED <<jobs, worker_pc, result, status_job>>
    /\ UNCHANGED notServerVars

\* get_status, line 152: the status is read a third time
StatusElifFailed ==
    /\ status_pc = "elif"
    /\ status_pc' = IF jobs[status_job].status = "FAILED" THEN "error" ELSE "returned"
    /\ UNCHANGED <<jobs, worker_pc, result, status_job, response>>
    /\ UNCHANGED notServerVars

\* get_status, line 153
StatusError ==
    /\ status_pc = "error"
    /\ response' = [response EXCEPT !.error = jobs[status_job].error]
    /\ status_pc' = "returned"
    /\ UNCHANGED <<jobs, worker_pc, result, status_job>>
    /\ UNCHANGED notServerVars

\* POST /cancel/<job_id>
cancel_job(j) ==
    /\ j <= Len(jobs)
    /\ jobs' = [jobs EXCEPT ![j].status = "CANCELLED"]
    /\ UNCHANGED <<worker_pc, result, status_pc, status_job, response>>
    /\ UNCHANGED notServerVars

process_job_async(j) ==
    /\ j <= Len(jobs)
    /\ \/ WorkerStart(j)
       \/ WorkerHandler(j)
       \/ WorkerCompleted(j)
       \/ WorkerOutput(j)
       \/ WorkerFailed(j)
       \/ WorkerError(j)

get_status ==
    StatusRead \/ StatusIfCompleted \/ StatusOutput \/ StatusElifFailed \/ StatusError

NextServer ==
    \/ run_async
    \/ \E j \in JobIds : process_job_async(j)
    \/ get_status
    \/ \E j \in JobIds : cancel_job(j)

SpecServer == InitJob /\ [][NextServer]_vars

(***************************************************************************)
(* Properties of the identity lock                                         *)
(***************************************************************************)
Locked == target_track_id # NoneId
TrackIds(tr) == {tr[k].id : k \in 1..Len(tr)}
BoxesOfId(tr, id) == {tr[k].box : k \in {j \in 1..Len(tr) : tr[j].id = id}}
ContainsPoint(b, pt) ==
    /\ b[1] <= pt[1] /\ pt[1] <= b[3]
    /\ b[2] <= pt[2] /\ pt[2] <= b[4]
NearCourt(b) == Area(b) > MinArea /\ 100 * b[4] > 65 * height
ZeroBox == <<0, 0, 0, 0>>

\* C1: once target_track_id is assigned, no later frame sets it back to
\* unset, whatever the frame carries and also when the loss timeout fires.
C1_LockNeverCleared ==
    [][Locked => Locked']_vars

\* the loss timeout has fired (lost_frames went back to 0 in a frame that did
\* not find the target) and the lock is still held
C1_Witness ==
    /\ outcome = "lost"
    /\ lost_frames = 0
    /\ Locked

\* C2: while locked, the identifier changes in a frame only if it was absent
\* from the frame's track candidates and the proximity re-lock selected
\* another track; in every other frame it is unchanged.
C2_IdChangesOnlyByRelock ==
    [][(Locked /\ target_track_id' # target_track_id)
         => /\ outcome' = "relock"
            /\ target_track_id \notin TrackIds(tracks')
            /\ target_track_id' \in TrackIds(tracks')]_vars

C2_Witness ==
    /\ outcome = "relock"
    /\ Locked
    /\ best_box \in BoxesOfId(tracks, target_track_id)

\* C3: sticky lock. In every frame where the locked identifier is among the
\* track candidates the surfaced box is the box of that track and the lock is
\* unchanged, whatever the other candidates are.
C3_StickyLock ==
    [][(Locked /\ target_track_id \in TrackIds(tracks'))
         => /\ target_track_id' = target_track_id
            /\ found'
            /\ best_box' \in BoxesOfId(tracks', target_track_id)
            /\ (res_entry' # <<>> => res_entry'.bbox = best_box')]_vars

\* the locked track was adopted although a larger candidate with a higher
\* confidence stood before it in the list
C3_Witness ==
    /\ outcome = "present"
    /\ Len(tracks) = 2
    /\ tracks[2].id = target_track_id
    /\ best_box = tracks[2].box
    /\ Area(tracks[1].box) > Area(best_box)
    /\ tracks[1].conf > best_conf

\* C4 as claimed: the transition from unlocked to locked happens only at a
\* loop index below lock_wait_timeout.
C4_LockOnlyInsideWindow ==
    [][(~Locked /\ Locked') => i < lock_wait_timeout]_vars

\* C4, amended: the first lock is made by the first-time selection from the
\* frame's own track candidates at any loop index; the lock-wait window only
\* delays an ROI run, which below index 90 locks no candidate whose ROI score
\* is not positive.
C4_FirstLockAnyFrame ==
    [][(~Locked /\ Locked')
         => /\ outcome' = "first_lock"
            /\ best_box' \in BoxesOfId(tracks', target_track_id')
            /\ (crop_box_px # NoBox /\ i < lock_wait_timeout
                  => CropScore(crop_box_px, best_box') > 0)]_vars

\* a first lock established after the lock-wait window
C4_Witness ==
    /\ outcome = "first_lock"
    /\ frame_idx >= lock_wait_timeout

ScoresOf(crop, tr) == {CropScore(crop, tr[k].box) : k \in 1..Len(tr)}
Containing(tr, pt) == {k \in 1..Len(tr) : ContainsPoint(tr[k].box, pt)}
PointDist(b, pt) == Dist2Sq(Center2(b), <<2 * pt[1], 2 * pt[2]>>)
LargestNearCourt(b, tr) ==
    /\ NearCourt(b)
    /\ \A k \in 1..Len(tr) : NearCourt(tr[k].box) => Area(b) >= Area(tr[k].box)

\* C5 as claimed: with an ROI hint and no lock yet, the candidate locked is
\* the one with the highest ROI score; it is locked as soon as the score
\* exceeds 0.3, and a best candidate at or below 0.3 is locked only once the
\* 90-frame lock-wait window has expired.
C5_ForcedOnlyAfterWindow ==
    [][(crop_box_px # NoBox /\ ~Locked /\ Len(tracks') > 0)
         => LET best == MaxOf(ScoresOf(crop_box_px, tracks'))
            IN /\ (Locked' => CropScore(crop_box_px, best_box') = best)
               /\ (best > RelaxedThreshold => Locked')
               /\ (Locked' /\ best <= RelaxedThreshold
                     => i >= lock_wait_timeout)]_vars

\* C5, amended: with an ROI hint, tracker identifiers and no lock yet, when
\* some candidate has a positive ROI score the candidate locked is the one with the highest score;
\* it is locked as soon as the score exceeds 0.3, and a best candidate at or
\* below 0.3 is locked exactly when the loop index exceeds half the lock-wait
\* window (index > 45).  When no candidate has a positive score nothing is
\* locked below index 90, and from index 90 on the largest near-court
\* candidate is locked.
C5_RoiLock ==
    [][(crop_box_px # NoBox /\ tracker_ok /\ ~Locked /\ Len(tracks') > 0)
         => LET best == MaxOf(ScoresOf(crop_box_px, tracks'))
            IN IF best > 0
               THEN /\ Locked' <=> (best > RelaxedThreshold
                                     \/ i > lock_wait_timeout \div 2)
                    /\ Locked' => /\ best_box' \in BoxesOfId(tracks', target_track_id')
                                  /\ CropScore(crop_box_px, best_box') = best
               ELSE /\ Locked' <=> (/\ i >= lock_wait_timeout
                                     /\ \E k \in 1..Len(tracks') : NearCourt(tracks'[k].box))
                    /\ Locked' => /\ best_box' \in BoxesOfId(tracks', target_track_id')
                                  /\ LargestNearCourt(best_box', tracks')]_vars

\* a best candidate at or below the threshold locked by the forced fallback
\* inside the lock-wait window
C5_Witness ==
    /\ outcome = "first_lock"
    /\ crop_box_px # NoBox
    /\ frame_idx > lock_wait_timeout \div 2
    /\ frame_idx < lock_wait_timeout
    /\ CropScore(crop_box_px, best_box) <= RelaxedThreshold
    /\ CropScore(crop_box_px, best_box) = MaxOf(ScoresOf(crop_box_px, tracks))

\* C6 as claimed: with a click point and no ROI hint, the candidate locked
\* contains the click point and is the nearest-centred of those; a candidate
\* that does not contain the point is never locked by the first-time selection.
C6_OnlyContainingLocked ==
    [][(crop_box_px = NoBox /\ target_point_px # NoBox /\ ~Locked /\ Locked')
         => /\ ContainsPoint(best_box', target_point_px)
            /\ \A k \in Containing(tracks', target_point_px) :
                  PointDist(best_box', target_point_px)
                     <= PointDist(tracks'[k].box, target_point_px)]_vars

\* C6, amended: with a click point and no ROI hint, when some candidate's box
\* contains the point the candidate locked contains the point and is the
\* nearest-centred of those; a candidate that does not contain the point is
\* locked only when no candidate contains it, and is then the largest
\* near-court candidate (area above 30000, bottom edge below 65% of the height).
C6_PointLock ==
    [][(crop_box_px = NoBox /\ target_point_px # NoBox /\ ~Locked /\ Locked')
         => /\ best_box' \in BoxesOfId(tracks', target_track_id')
            /\ IF Containing(tracks', target_point_px) # {}
               THEN /\ ContainsPoint(best_box', target_point_px)
                    /\ \A k \in Containing(tracks', target_point_px) :
                          PointDist(best_box', target_point_px)
                             <= PointDist(tracks'[k].box, target_point_px)
               ELSE LargestNearCourt(best_box', tracks')]_vars

\* two candidates contain the click point and the second, smaller one is
\* locked because its centre is nearer
C6_Witness ==
    /\ outcome = "first_lock"
    /\ crop_box_px = NoBox
    /\ target_point_px # NoBox
    /\ Containing(tracks, target_point_px) = {1, 2}
    /\ best_box = tracks[2].box
    /\ PointDist(tracks[2].box, target_point_px) < PointDist(tracks[1].box, target_point_px)
    /\ Area(tracks[1].box) > Area(tracks[2].box)

\* C7: every record emitted for a frame in which a lock is held but the target
\* was neither present nor recovered carries the last known box of the target,
\* not a zero box.
C7_LastKnownBoxSurfaced ==
    (res_entry # <<>> /\ Locked /\ ~found)
       => (res_entry.bbox = last_box /\ res_entry.bbox # ZeroBox)

Returned == cls_result # NoResult

PriorityOrder == <<"overhead", "serve", "dink", "volley", "groundstroke">>

\* the outcome of the detection rule of one stroke type on the call's arguments
RuleOf(t) ==
    CASE t = "overhead" -> is_overhead(cls_metrics, cls_history)
      [] t = "serve" -> is_serve(cls_metrics, cls_history)
      [] t = "dink" -> is_dink(cls_metrics, cls_history)
      [] t = "volley" -> is_volley(cls_metrics, cls_history, cls_position)
      [] t = "groundstroke" -> is_groundstroke(cls_metrics, cls_history)

\* the confidence a rule has to reach for its type to be returned
ThresholdOf(t) ==
    CASE t = "overhead" -> 80
      [] t = "serve" -> 75
      [] t = "dink" -> IF cls_target_type = "dink" THEN 70 ELSE 75
      [] t = "volley" -> 75
      [] t = "groundstroke" -> 0

\* the categories the hint leaves in play
Allowed(t) == cls_target_type = "serve" => t \in {"overhead", "serve"}

Qualifies(t) == Allowed(t) /\ RuleOf(t).ok /\ RuleOf(t).conf >= ThresholdOf(t)

QualifyingRanks == {k \in 1..Len(PriorityOrder) : Qualifies(PriorityOrder[k])}

\* C9: the returned type is the first one, in the order overhead, serve, dink,
\* volley, groundstroke, whose rule qualifies at its confidence threshold among
\* the categories the hint allows; unknown is returned exactly when no rule
\* qualifies, so a later type is never returned when an earlier one qualifies.
C9_FirstQualifyingWins ==
    Returned =>
        /\ (cls_result.stroke_type = "unknown") <=> (QualifyingRanks = {})
        /\ QualifyingRanks # {} =>
              /\ cls_result.stroke_type = PriorityOrder[MinOf(QualifyingRanks)]
        /\ \A k \in 1..Len(PriorityOrder) :
              cls_result.stroke_type = PriorityOrder[k]
                  => \A j \in 1..(k - 1) : ~Qualifies(PriorityOrder[j])

\* a call where the dink and the volley rule both qualify and dink is returned
C9_Witness ==
    /\ Returned
    /\ cls_result.stroke_type = "dink"
    /\ Qualifies("dink")
    /\ Qualifies("volley")
    /\ Cardinality(QualifyingRanks) >= 2

\* C10: with the hint 'serve' the result is overhead, serve or unknown, never
\* dink, volley or groundstroke; and with any hint the returned type is unknown
\* or a type whose own detection rule returned true for the same arguments.
C10_HintGatesCategories ==
    Returned =>
        /\ cls_target_type = "serve"
              => cls_result.stroke_type \in {"overhead", "serve", "unknown"}
        /\ \/ cls_result.stroke_type = "unknown"
           \/ /\ cls_result.stroke_type \in {"overhead", "serve", "dink", "volley",
                                             "groundstroke"}
              /\ RuleOf(cls_result.stroke_type).ok

\* a serve-hinted call that returns unknown although the dink, volley or
\* groundstroke rule accepts the same arguments
C10_Witness ==
    /\ Returned
    /\ cls_target_type = "serve"
    /\ cls_result.stroke_type = "unknown"
    /\ is_dink(cls_metrics, cls_history).ok
    /\ is_dink(cls_metrics, cls_history).conf >= 75
    /\ is_groundstroke(cls_metrics, cls_history).ok


\* the result of the same call made without a hint
Unhinted == classify_stroke_enhanced(cls_metrics, cls_history, cls_position, "none")

\* C11: a hint never fabricates a positive: whenever the hinted call returns a
\* stroke type other than unknown, the call without the hint on the same
\* metrics and history also returns a stroke type other than unknown.
C11_HintNeverFabricates ==
    (Returned /\ cls_result.stroke_type # "unknown")
        => Unhinted.stroke_type # "unknown"

\* the wrist of every frame of the call lies 0.02 above the frame before it
RisesByTwoHundredths ==
    /\ Len(cls_history) >= 2
    /\ cls_metrics.right_wrist_y = cls_history[Len(cls_history)].right_wrist_y - 20
    /\ \A k \in 2..Len(cls_history) :
          cls_history[k].right_wrist_y = cls_history[k - 1].right_wrist_y - 20

\* the wrist starts below the hip line y = 0.5 and ends above it
PassesHipLevel ==
    /\ \A k \in 1..Len(cls_history) : cls_history[k].right_hip_y = 500
    /\ cls_metrics.right_hip_y = 500
    /\ Len(cls_history) >= 1
    /\ cls_history[1].right_wrist_y > 500
    /\ cls_metrics.right_wrist_y < 500

\* C13: the frame that ends a run of at least three frames whose wrist rises
\* by 0.02 per frame past a hip held at 0.5, all other metrics at their
\* defaults and no hint given, is classified serve with confidence >= 0.75
C13_SwingIsServe ==
    (Returned /\ RisesByTwoHundredths /\ PassesHipLevel /\ cls_target_type = "none")
        => (cls_result.stroke_type = "serve" /\ cls_result.confidence >= 75)

(***************************************************************************)
(* Properties of detect_segments                                           *)
(***************************************************************************)
\* the history detect_segments passes with frame k (the frames before it, at
\* most the last 10), and the frame's result
HistoryAt(k) == SubSeq(frames_metrics, Max(1, k - HistoryWindow), k - 1)

Vote(k) ==
    classify_stroke_enhanced(frames_metrics[k], HistoryAt(k), FALSE, seg_target_type)

\* the rule of type t accepts frame k at its threshold (position_data is None)
FiresAt(t, k) ==
    /\ seg_target_type = "serve" => t \in {"overhead", "serve"}
    /\ \/ t = "overhead" /\ is_overhead(frames_metrics[k], HistoryAt(k)).ok
                         /\ is_overhead(frames_metrics[k], HistoryAt(k)).conf >= 80
       \/ t = "serve" /\ is_serve(frames_metrics[k], HistoryAt(k)).ok
                      /\ is_serve(frames_metrics[k], HistoryAt(k)).conf >= 75
       \/ t = "dink" /\ is_dink(frames_metrics[k], HistoryAt(k)).ok
                     /\ is_dink(frames_metrics[k], HistoryAt(k)).conf
                            >= (IF seg_target_type = "dink" THEN 70 ELSE 75)
       \/ t = "volley" /\ is_volley(frames_metrics[k], HistoryAt(k), FALSE).ok
                       /\ is_volley(frames_metrics[k], HistoryAt(k), FALSE).conf >= 75
       \/ t = "groundstroke" /\ is_groundstroke(frames_metrics[k], HistoryAt(k)).ok

NoRuleFires(k) == \A n \in 1..Len(PriorityOrder) : ~FiresAt(PriorityOrder[n], k)

\* frame index of frame k as the loop reads it
IdxAt(k) == FrameIdxOf(frames_metrics[k], k - 1)

\* C12: a frame for which no rule fires is classified unknown at 0.40, and no
\* returned segment has the type unknown, however many unknown frames follow
\* each other
C12_UnknownNeverSegment ==
    seg_done =>
        /\ \A k \in 1..Len(frames_metrics) :
              NoRuleFires(k) => Vote(k) = Result("unknown", 40, "unclassified")
        /\ \A j \in 1..Len(segments) : segments[j].stroke_type # "unknown"

\* a call with four unknown frames in a row between two returned dink segments
C12_Witness ==
    /\ seg_done
    /\ Len(segments) = 2
    /\ \E k \in 1..(Len(frames_metrics) - 3) :
          \A d \in 0..3 : NoRuleFires(k + d) /\ Vote(k + d).stroke_type = "unknown"

\* the results of all frames of the call
Votes == [k \in 1..Len(frames_metrics) |-> Vote(k)]

\* the runs of the call before the merge pass: maximal stretches of frames
\* with one classification, v being the results of the frames.  Frame k
\* starts a run ...
StartsRun(v, k) == k = 1 \/ v[k].stroke_type # v[k - 1].stroke_type

\* ... and the run of frame k reaches from RunStart(v, k) to RunEnd(v, k)
RunStart(v, k) == MaxOf({j \in 1..k : StartsRun(v, j)})

RunEnd(v, k) == MinOf({j \in k..Len(v) : j = Len(v) \/ StartsRun(v, j + 1)})

\* the end_frame the loop records for the run of frame k: the frame_idx of the
\* run's last frame (where the key is missing, the index of the frame after it)
RunEndIdx(v, k) ==
    IF RunEnd(v, k) < Len(v)
    THEN FrameIdxOf(frames_metrics[RunEnd(v, k)], IdxAt(RunEnd(v, k) + 1))
    ELSE IdxAt(Len(v))

\* the run of frame k is a stroke of at least three frame indices
InRetainedRun(v, k) ==
    /\ v[k].stroke_type # "unknown"
    /\ RunEndIdx(v, k) - IdxAt(RunStart(v, k)) + 1 >= MinSegmentFrames

\* the first frames of the retained runs
RetainedStarts(v) == {k \in 1..Len(v) : StartsRun(v, k) /\ InRetainedRun(v, k)}

\* the first frame of the retained run after the one starting at k, 0 if none
NextRetained(rs, k) ==
    IF \E j \in rs : j > k THEN MinOf({j \in rs : j > k}) ELSE 0

\* the run starting at frame a and the run starting at frame b lie in one
\* returned segment
InOneSegment(v, a, b) ==
    \E n \in 1..Len(segments) :
        /\ segments[n].start_frame <= IdxAt(a)
        /\ RunEndIdx(v, b) <= segments[n].end_frame

\* the run starting at frame a opens a returned segment that ends with the run
\* starting at frame b
SegmentFromTo(v, a, b) ==
    \E n \in 1..Len(segments) :
        /\ segments[n].start_frame = IdxAt(a)
        /\ segments[n].end_frame = RunEndIdx(v, b)
        /\ segments[n].stroke_type = v[a].stroke_type

\* the retained runs starting at a and at b, neighbours in the retained list
\* and of one type, are merged exactly when the gap allows it
PairMergedIffSmallGap(v, rs, a, b) ==
    (b # 0 /\ v[b].stroke_type = v[a].stroke_type)
        => /\ InOneSegment(v, a, b) <=> (IdxAt(b) - RunEndIdx(v, a) - 1 <= MergeGap)
           /\ (IdxAt(b) - RunEndIdx(v, a) - 1 <= MergeGap /\ Cardinality(rs) = 2)
                 => SegmentFromTo(v, a, b)

AllPairsMergedIffSmallGap ==
    \A v \in {Votes} :
       \A rs \in {RetainedStarts(v)} :
          \A k \in rs :
             \A b \in {NextRetained(rs, k)} : PairMergedIffSmallGap(v, rs, k, b)

\* C15: two retained runs of one type that follow each other in the retained
\* list end up in one segment if and only if the gap between them is at most
\* 3; a segment made of two runs starts at the first run's start_frame and
\* ends at the second run's end_frame; 10 dink frames, 2 other frames and 5
\* dink frames give one segment over all 17 frames
C15_MergeIffSmallGap ==
    seg_done =>
        /\ AllPairsMergedIffSmallGap
        /\ \A first \in {0, 7} :
              frames_metrics = RunFrames(10, 2, 5, first)
                 => /\ Len(segments) = 1
                    /\ segments[1].start_frame = first
                    /\ segments[1].end_frame = first + 16
                    /\ segments[1].stroke_type = "dink"

\* the call on 10 dink frames, 2 unknown frames and 5 dink frames has returned
C15_Witness ==
    /\ seg_done
    /\ frames_metrics = RunFrames(10, 2, 5, 0)
    /\ RetainedStarts(Votes) = {1, 13}
    /\ Len(segments) = 1

\* C16: the merge pass applied to the returned list gives the same list, and
\* no two neighbouring returned segments of one type lie 3 frames or fewer
\* apart
C16_MergeIdempotent ==
    seg_done =>
        /\ MergePass(segments) = segments
        /\ \A n \in 1..(Len(segments) - 1) :
              segments[n].stroke_type = segments[n + 1].stroke_type
                 => segments[n + 1].start_frame - segments[n].end_frame - 1 > MergeGap

\* a returned list of two dink segments four frames apart, which the merge
\* pass left apart
C16_Witness ==
    /\ seg_done
    /\ Len(segments) = 2
    /\ segments[1].stroke_type = segments[2].stroke_type
    /\ segments[2].start_frame - segments[1].end_frame - 1 = MergeGap + 1

\* the frames of the runs merged into the returned segment seg
FramesOf(v, seg) ==
    {k \in 1..Len(v) :
        /\ InRetainedRun(v, k)
        /\ v[k].stroke_type = seg.stroke_type
        /\ seg.start_frame <= IdxAt(RunStart(v, k))
        /\ RunEndIdx(v, k) <= seg.end_frame}

ConfidenceIsMaxOf(v, seg, fs) ==
    /\ fs # {}
    /\ seg.confidence = MaxOf({v[k].confidence : k \in fs})
    /\ \A k \in fs : seg.confidence >= v[k].confidence

AllConfidencesAreMax ==
    \A v \in {Votes} :
       \A n \in 1..Len(segments) :
          \A fs \in {FramesOf(v, segments[n])} : ConfidenceIsMaxOf(v, segments[n], fs)

\* C17: the confidence of a returned segment is the largest per-frame
\* confidence over the frames of the runs merged into it, never less
C17_ConfidenceIsMax == seg_done => AllConfidencesAreMax

\* a returned segment merged from two runs whose frames differ in confidence,
\* the last frame not being the most confident one
C17_Witness ==
    /\ seg_done
    /\ Len(segments) = 1
    /\ Cardinality(RetainedStarts(Votes)) = 2
    /\ segments[1].confidence = 85
    /\ Votes[Len(frames_metrics)].confidence = 75
    /\ Len(frames_metrics) \in FramesOf(Votes, segments[1])

(***************************************************************************)
(* Properties of whole runs                                                *)
(***************************************************************************)
StrokeLength(s) == s.end_frame - s.start_frame + 1

\* C14: every segment detect_segments returned to the run spans at least 3
\* frames, and every stroke of the output has an end_frame, not before its
\* start_frame, and spans at least the min_len_frames of the gates in force
C14_MinimumLength ==
    post_done =>
        /\ \A k \in 1..Len(raw_segments) :
              /\ raw_segments[k].end_frame >= raw_segments[k].start_frame
              /\ StrokeLength(raw_segments[k]) >= MinSegmentFrames
        /\ \A k \in 1..Len(detected_strokes) :
              /\ detected_strokes[k].end_frame # Absent
              /\ detected_strokes[k].end_frame >= detected_strokes[k].start_frame
              /\ StrokeLength(detected_strokes[k])
                    >= CfgOfRun(stroke_type, coarse_mode).min_len_frames

\* the frames whose metrics lie in the window of stroke s, by the frame index
\* of their files
BuiltFrom(s) ==
    {pose_frames[k] : k \in {j \in 1..Len(all_frames_metrics) :
                                /\ s.start_frame <= all_frames_metrics[j].frame_idx
                                /\ all_frames_metrics[j].frame_idx <= s.end_frame}}

\* the frame records inside the window of stroke s
RecordedIn(s) ==
    {results[k].frame_idx : k \in {j \in 1..Len(results) :
                                      /\ s.start_frame <= results[j].frame_idx
                                      /\ results[j].frame_idx <= s.end_frame}}

\* C18: start_frame and end_frame of every stroke that detect_segments hands
\* to the run (the output copies them unchanged) are the file frame indices
\* of the first and the last frame it was built from, and the frames it was
\* built from are among the frame records of its window
C18_LiteralFrameIndices ==
    post_done =>
        \A k \in 1..Len(raw_segments) :
            /\ BuiltFrom(raw_segments[k]) # {}
            /\ raw_segments[k].start_frame = MinOf(BuiltFrom(raw_segments[k]))
            /\ raw_segments[k].end_frame = MaxOf(BuiltFrom(raw_segments[k]))
            /\ BuiltFrom(raw_segments[k]) \subseteq RecordedIn(raw_segments[k])

\* C19: every stroke of the output carries one track identifier: the one of
\* the frame records in its window if they agree, otherwise one with the
\* highest record count in the window together with the flag multi_id_warning
C19_SingleTrackId ==
    post_done =>
        \A k \in 1..Len(detected_strokes) :
            /\ detected_strokes[k].track_id # Absent
            /\ detected_strokes[k].end_frame # Absent
            /\ Cardinality(IdsInWindow(detected_strokes[k], results)) = 1
                  => detected_strokes[k].track_id
                        \in IdsInWindow(detected_strokes[k], results)
            /\ Cardinality(IdsInWindow(detected_strokes[k], results)) > 1
                  => /\ detected_strokes[k].multi_id_warning
                     /\ detected_strokes[k].track_id
                           \in IdsInWindow(detected_strokes[k], results)
                     /\ \A id \in IdsInWindow(detected_strokes[k], results) :
                           IdCount(detected_strokes[k].track_id, detected_strokes[k],
                                   results)
                              >= IdCount(id, detected_strokes[k], results)

(***************************************************************************)
(* Properties of the injury risk detector                                  *)
(***************************************************************************)
\* C20: every risk counter is at most the number of analysed frames, and
\* every percentage of a session summary lies between 0 and 100
C20_RiskPercentageBound ==
    /\ \A x \in RiskCategories :
          /\ 0 <= risk_counters[x]
          /\ risk_counters[x] <= Len(risk_history)
    /\ session_summary.total_frames \notin {Absent, 0}
          => \A x \in RiskCategories :
                /\ 0 <= session_summary.percentages[x]
                /\ session_summary.percentages[x] <= 1000

\* a summary of a session with at least one analysed frame has been returned
HasSummary == session_summary.total_frames \notin {Absent, 0}

ThresholdOfCategory(x) ==
    CASE x = "shoulder_overuse" -> ShoulderOverusePercentage
      [] x = "poor_kinetic_chain" -> PoorKineticChainPercentage
      [] x = "knee_stress" -> KneeStressPercentage
      [] x = "elbow_strain" -> ElbowStrainPercentage

\* the type of the alert and the title of the recommendation that stand for
\* a category in the summary
AlertTypeOfCategory(x) == IF x = "poor_kinetic_chain" THEN "technique" ELSE x

TitleOfCategory(x) ==
    CASE x = "shoulder_overuse" -> "Reduce Shoulder Strain"
      [] x = "poor_kinetic_chain" -> "Improve Power Generation"
      [] x = "knee_stress" -> "Protect Your Knees"
      [] x = "elbow_strain" -> "Elbow Positioning"

Occurrences(seq, v) == Cardinality({k \in 1..Len(seq) : seq[k] = v})

\* the percentage of category x in the returned summary exceeds its threshold
Breached(x) == session_summary.percentages[x] > 10 * ThresholdOfCategory(x)

\* C21: in a session summary every category whose percentage exceeds its
\* threshold has exactly one alert and exactly one recommendation, every other
\* category has none, and the number of alerts is the number of breached
\* categories
C21_AlertPerBreach ==
    HasSummary =>
        /\ \A x \in RiskCategories :
              /\ Occurrences(session_summary.alerts, AlertTypeOfCategory(x))
                    = (IF Breached(x) THEN 1 ELSE 0)
              /\ Occurrences(session_summary.recommendations, TitleOfCategory(x))
                    = (IF Breached(x) THEN 1 ELSE 0)
        /\ Len(session_summary.alerts)
              = Cardinality({x \in RiskCategories : Breached(x)})

\* C22: for a session with at least one analysed frame overall_risk is high
\* with two or more alerts, medium with exactly one and low with none, and
\* the positive-reinforcement recommendation is in the summary exactly when
\* overall_risk is low
C22_OverallRiskByAlerts ==
    HasSummary =>
        /\ Len(session_summary.alerts) >= 2 => session_summary.overall_risk = "high"
        /\ Len(session_summary.alerts) = 1 => session_summary.overall_risk = "medium"
        /\ Len(session_summary.alerts) = 0 => session_summary.overall_risk = "low"
        /\ Occurrences(session_summary.recommendations, "Excellent Biomechanics") > 0
              <=> session_summary.overall_risk = "low"

\* a summary with exactly one alert, rated medium, without the positive
\* recommendation, in which another category has frames but stays under its
\* threshold
C22_Witness ==
    /\ HasSummary
    /\ Len(session_summary.alerts) = 1
    /\ session_summary.overall_risk = "medium"
    /\ Occurrences(session_summary.recommendations, "Excellent Biomechanics") = 0
    /\ \E x \in RiskCategories :
          session_summary.percentages[x] > 0 /\ ~Breached(x)

\* C23: every summary get_session_summary returns, also that of a session
\* without any analysed frame, has overall_risk low, medium or high and
\* carries the fields risk_counters and percentages
C23_SummaryShape ==
    session_summary.total_frames # Absent =>
        /\ session_summary.overall_risk \in {"low", "medium", "high"}
        /\ {"risk_counters", "percentages"} \subseteq DOMAIN session_summary

\* the frames of the session whose shoulder is rated as an abduction of
\* ShoulderAngle degrees is
ShoulderRated ==
    {k \in 1..Len(risk_history) :
        risk_history[k].biomechanics.shoulder_abduction.risk_level
           = calculate_shoulder_abduction_validated(ShoulderAngle,
                                                    risk_history[k].stroke_type)}

\* the summary of a session of SessionFrames frames, ShoulderFrames of them
\* with the shoulder at ShoulderAngle degrees and none of them an overhead
ShoulderScenario ==
    /\ Len(risk_history) = SessionFrames
    /\ session_summary.total_frames = SessionFrames
    /\ \A k \in 1..Len(risk_history) : risk_history[k].stroke_type # "overhead"
    /\ Cardinality(ShoulderRated) = ShoulderFrames

\* C24: a session of 100 frames, 15 of them with a shoulder abduction of 150
\* degrees and none of them an overhead, gets a shoulder_overuse alert and an
\* overall_risk of medium or high
C24_ShoulderScenarioAlerts ==
    ShoulderScenario =>
        /\ Occurrences(session_summary.alerts, "shoulder_overuse") = 1
        /\ session_summary.overall_risk \in {"medium", "high"}

\* the scenario with the other 85 frames free of any risk
C24_Witness ==
    /\ ShoulderScenario
    /\ session_summary.risk_counters["shoulder_overuse"] = ShoulderFrames
    /\ session_summary.overall_risk = "medium"

(***************************************************************************)
(* Properties of the loss handling                                         *)
(***************************************************************************)
\* the step is a frame that was read
FrameRead == i' = i + 1 /\ outcome' # "unreadable"

\* the frame recovered the target by the ROI detection or by the proximity
\* re-lock
Recovered == outcome' \in {"det_recovered", "relock"}

\* C26: in a frame read while a lock is held, lost_frames is raised by one
\* exactly when the locked identifier is absent from the candidates and
\* neither recovery finds the target
C26_LossCountedIffNoRecovery ==
    [][(Locked /\ FrameRead)
          => (lost_frames' = lost_frames + 1
                <=> (target_track_id \notin TrackIds(tracks') /\ ~Recovered))]_vars

\* the radius of the statement around the last known centre
Radius == IF IsNearEdge(prev_bbox_center) THEN RelockDistEdge ELSE RelockDistNormal

\* the candidates of the frame strictly closer to the last known centre than
\* the radius
Inside == {k \in 1..Len(tracks') :
              Within(Center2(tracks'[k].box), prev_bbox_center, Radius)}

\* candidate k is at the least distance among the candidates inside the radius
Nearest(k) ==
    \A j \in Inside : Dist2Sq(Center2(tracks'[k].box), prev_bbox_center)
                         <= Dist2Sq(Center2(tracks'[j].box), prev_bbox_center)

ServeScores == 3..11

\* min(0.55 + 0.06 * (score - 3), 0.95) in hundredths
StatedServeConfidence(score) ==
    IF 55 + 6 * (score - 3) < 95 THEN 55 + 6 * (score - 3) ELSE 95

\* the least score whose stated confidence is at least 0.75
ServeLevel == CHOOSE s \in ServeScores :
                 /\ StatedServeConfidence(s) >= 75
                 /\ \A r \in ServeScores : StatedServeConfidence(r) >= 75 => s <= r

\* C28: the confidence of a result lies in [0, 1]; it is 0.40 for unknown and
\* between 0.75 and 0.95 for every other type; serve is returned only from the
\* score at which min(0.55 + 0.06 * (score - 3), 0.95) reaches 0.75, and the
\* serve confidence does not decrease when the score increases
C28_ConfidenceRanges ==
    /\ cls_result # NoResult
       => /\ 0 <= cls_result.confidence /\ cls_result.confidence <= 100
          /\ cls_result.stroke_type = "unknown" => cls_result.confidence = 40
          /\ cls_result.stroke_type # "unknown"
             => 75 <= cls_result.confidence /\ cls_result.confidence <= 95
          /\ cls_result.stroke_type = "serve"
             => /\ ServeScore(cls_metrics, cls_history) >= ServeLevel
                /\ cls_result.confidence
                     >= StatedServeConfidence(ServeScore(cls_metrics, cls_history))
    /\ \A s1, s2 \in ServeScores :
          s1 <= s2 => ServeConfidence(s1) <= ServeConfidence(s2)

\* a serve returned at the least score that allows it, with its confidence
C28_Witness ==
    /\ cls_result # NoResult
    /\ cls_result.stroke_type = "serve"
    /\ ServeScore(cls_metrics, cls_history) = ServeLevel
    /\ cls_result.confidence = 79

(***************************************************************************)
(* Properties of the per-stroke filtering                                  *)
(***************************************************************************)
\* the gates and the cooldown in force
RunCfg == CfgOfRun(stroke_type, coarse_mode)
RunCooldown == CooldownFrames(RunCfg)

\* the stroke meets the three gates of the statement
MeetsGates(s) ==
    /\ s.confidence >= RunCfg.min_conf
    /\ s.peak_velocity >= RunCfg.min_peak_v
    /\ s.end_frame - s.start_frame + 1 >= RunCfg.min_len_frames

\* the accepted strokes that start before stroke s
AcceptedBefore(s) ==
    {k \in 1..Len(gate_filtered) : gate_filtered[k].start_frame < s.start_frame}

\* stroke s starts after the cooldown of the last stroke accepted before it
AfterCooldown(s) ==
    \/ RunCooldown = 0
    \/ AcceptedBefore(s) = {}
    \/ s.start_frame > gate_filtered[MaxOf(AcceptedBefore(s))].end_frame + RunCooldown

\* C29: every stroke that survives the filtering meets the confidence, the
\* peak-velocity and the length gate of the stroke type; under a positive
\* cooldown each accepted stroke starts more than cooldown_frames after the
\* end of the one accepted before it; and a stroke that meets the gates and
\* starts after the cooldown of the last accepted stroke is accepted
C29_GatesAndCooldown ==
    gate_done
    => /\ \A k \in 1..Len(gate_filtered) : MeetsGates(gate_filtered[k])
       /\ RunCooldown > 0
          => \A k \in 1..(Len(gate_filtered) - 1) :
                gate_filtered[k + 1].start_frame
                   > gate_filtered[k].end_frame + RunCooldown
       /\ \A j \in 1..Len(gate_strokes) :
             (MeetsGates(gate_strokes[j]) /\ AfterCooldown(gate_strokes[j]))
                => \E k \in 1..Len(gate_filtered) : gate_filtered[k] = gate_strokes[j]

\* three strokes that meet the gates under a positive cooldown: the second
\* one starts inside the cooldown of the first and is dropped, the third one
\* is accepted
C29_Witness ==
    /\ gate_done
    /\ RunCooldown > 0
    /\ Len(gate_strokes) = 3
    /\ \A j \in 1..3 : MeetsGates(gate_strokes[j])
    /\ gate_filtered = <<gate_strokes[1], gate_strokes[3]>>

(***************************************************************************)
(* Properties of the peak                                                  *)
(***************************************************************************)
\* the segments that pass the stroke-type filter
KeptSegments ==
    {k \in 1..Len(raw_segments) :
        IsStrict(stroke_type) => raw_segments[k].stroke_type = stroke_type}

\* the recorded wrist velocities of the frames of segment seg
VelocitiesIn(seg) ==
    {WristVelocityOf(all_frames_metrics[j]) :
        j \in {h \in 1..Len(all_frames_metrics) :
                  /\ seg.start_frame <= FrameIdxOf(all_frames_metrics[h], -1)
                  /\ FrameIdxOf(all_frames_metrics[h], -1) <= seg.end_frame}}

\* C30: for every segment that passes the stroke-type filter, whatever the
\* stroke_type setting, peak_velocity is the greatest recorded wrist velocity
\* of the frames in [start_frame, end_frame] (0 when there is none) and
\* peak_frame_idx lies in [start_frame, end_frame] (start_frame when every
\* velocity is 0)
C30_PeakOfSegment ==
    post_done
    => \A k \in KeptSegments :
          LET seg == raw_segments[k]
              peak == PeakFields(seg, stroke_type, all_frames_metrics)
          IN /\ peak.peak_velocity = MaxOf({0} \cup VelocitiesIn(seg))
             /\ seg.start_frame <= peak.peak_frame_idx
             /\ peak.peak_frame_idx <= seg.end_frame
             /\ peak.peak_velocity = 0 => peak.peak_frame_idx = seg.start_frame

(***************************************************************************)
(* Properties of one analyze_frame call                                    *)
(***************************************************************************)
\* the step is one analyze_frame call
FrameAnalysed == Len(risk_history') = Len(risk_history) + 1

\* the frame the call has stored
StoredFrame == risk_history'[Len(risk_history')]

\* the change of counter x in the step
Change(x) == risk_counters'[x] - risk_counters[x]

One(cond) == IF cond THEN 1 ELSE 0

\* C31: one analyze_frame call raises shoulder_overuse by one iff the shoulder
\* tier is high or critical outside an overhead; poor_kinetic_chain by one iff
\* the power generation is poor in a groundstroke, serve or overhead, which
\* raises elbow_strain by one as well; knee_stress by one iff the knee stress
\* is high; elbow_strain by one iff the elbow is outside its band; the
\* history grows by one entry; and no counter decreases in a step other than
\* a reset
C31_FrameEffect ==
    [][/\ FrameAnalysed
          => LET b == StoredFrame.biomechanics
                 st == StoredFrame.stroke_type
                 poor == /\ b.hip_rotation.power_generation = "poor"
                         /\ st \in {"groundstroke", "serve", "overhead"}
             IN /\ risk_history' = Append(risk_history, StoredFrame)
                /\ Change("shoulder_overuse")
                     = One(/\ b.shoulder_abduction.risk_level \in {"high", "critical"}
                           /\ st # "overhead")
                /\ Change("poor_kinetic_chain") = One(poor)
                /\ Change("knee_stress") = One(b.knee_flexion.stress_level = "high")
                /\ Change("elbow_strain")
                     = One(poor) + One(~b.elbow_flexion.within_optimal)
       /\ ~FrameAnalysed
          => \/ \A x \in RiskCategories : Change(x) = 0
             \/ risk_history' = <<>> /\ \A x \in RiskCategories : risk_counters'[x] = 0]_vars

\* a serve without hip power and with the elbow out of its band has been
\* analysed: poor_kinetic_chain stands at 1 and elbow_strain at 2
C31_Witness ==
    /\ Len(risk_history) = 1
    /\ risk_history[1].stroke_type = "serve"
    /\ risk_history[1].biomechanics.hip_rotation.power_generation = "poor"
    /\ ~risk_history[1].biomechanics.elbow_flexion.within_optimal
    /\ risk_counters["poor_kinetic_chain"] = 1
    /\ risk_counters["elbow_strain"] = 2

\* the frame index of entry k of the per-frame stream
StreamIdx(k) == FrameIdxOf(frames_metrics[k], k - 1)

\* C33: two successive entries of the per-frame stream of the same stroke
\* type whose frame indices are more than 4 apart are never inside one
\* segment
C33_NoWideGapBridged ==
    seg_done
    => \A k \in 1..(Len(frames_metrics) - 1) :
          (/\ Vote(k).stroke_type = Vote(k + 1).stroke_type
           /\ StreamIdx(k + 1) - StreamIdx(k) > 4)
          => ~\E n \in 1..Len(segments) :
                 /\ segments[n].start_frame <= StreamIdx(k)
                 /\ StreamIdx(k + 1) <= segments[n].end_frame

\* what the filtering accepts from the drawn strokes without and with
\* --coarse_mode; one of the two is the run that was made
AcceptedNormal ==
    IF coarse_mode THEN GateFilter(gate_strokes, CfgOfRun(stroke_type, FALSE))
    ELSE gate_filtered
AcceptedCoarse ==
    IF coarse_mode THEN gate_filtered
    ELSE GateFilter(gate_strokes, CfgOfRun(stroke_type, TRUE))

\* C34: for the same strokes and the same stroke type every stroke accepted
\* without coarse_mode is accepted with it; the coarse gates are not above
\* the normal ones and the coarse pass has no cooldown
C34_CoarseNotStricter ==
    gate_done
    => /\ \A k \in 1..Len(AcceptedNormal) :
             \E j \in 1..Len(AcceptedCoarse) : AcceptedCoarse[j] = AcceptedNormal[k]
       /\ CfgOfRun(stroke_type, TRUE).min_conf <= CfgOfRun(stroke_type, FALSE).min_conf
       /\ CfgOfRun(stroke_type, TRUE).min_peak_v <= CfgOfRun(stroke_type, FALSE).min_peak_v
       /\ CooldownFrames(CfgOfRun(stroke_type, TRUE)) = 0

\* a coarse run that accepted a stroke the normal run accepts and two more
\* that the normal run drops
C34_Witness ==
    /\ gate_done
    /\ coarse_mode
    /\ Len(AcceptedNormal) = 1
    /\ Len(gate_filtered) = 3

(***************************************************************************)
(* Properties of the history                                               *)
(***************************************************************************)
\* the frames that precede frame k, the last 10 at most, in their order
PrecedingFrames(k) ==
    [j \in 1..Min(k - 1, 10) |-> frames_metrics[k - 1 - Min(k - 1, 10) + j]]

\* the history detect_segments holds when it classifies frame k
SegmentsHistory(k) == LoopAfter(frames_metrics, k - 1, seg_target_type).history

\* the history classify_sequence holds when it classifies frame k
SequenceHistory(k) == SequenceAfter(frames_metrics, k - 1, seg_target_type).history

\* C32: at every per-frame classification of detect_segments and of
\* classify_sequence the history has at most 10 entries and is made of the
\* frames just before the current one, in their order; the list of input
\* metrics is never changed
C32_BoundedHistory ==
    /\ [](seg_done => \A k \in 1..Len(frames_metrics) :
                          /\ Len(SegmentsHistory(k)) <= 10
                          /\ SegmentsHistory(k) = PrecedingFrames(k))
    /\ [](votes_done => \A k \in 1..Len(frames_metrics) :
                            /\ Len(SequenceHistory(k)) <= 10
                            /\ SequenceHistory(k) = PrecedingFrames(k))
    /\ [][frames_metrics' = frames_metrics]_vars

\* both functions have run over more than 10 frames, so that the history
\* of the last frame has lost the first ones
C32_Witness ==
    /\ seg_done
    /\ votes_done
    /\ Len(frames_metrics) > 12
    /\ Len(frame_votes) = Len(frames_metrics)
    /\ Len(SegmentsHistory(Len(frames_metrics))) = 10

(***************************************************************************)
(* Properties of the handler                                               *)
(***************************************************************************)
\* the second pass of a two-pass job has run
SecondPassRan == handler_pc \in {"done", "error2"} /\ use_two_pass(frame_count)

\* frame fi lies inside one of the candidate windows
InCandidateWindow(fi) ==
    \E k \in 1..Len(candidate_windows) :
        candidate_windows[k][1] <= 10 * fi /\ 10 * fi <= candidate_windows[k][2]

\* C25: every frame the second pass of a two-pass job processes lies inside
\* a candidate window built from the strokes of the first pass
C25_SecondPassInsideWindows ==
    SecondPassRan => \A fi \in pass2_files : InCandidateWindow(fi)


(***************************************************************************)
(* Properties of the candidate windows                                     *)
(***************************************************************************)
\* the interval of stroke s of the first pass widened by the margin and
\* clipped to the video
Widened(s) ==
    <<Max(0, StrokeStart(s) - Ticks(Margin)),
      Min(DurationOf(frame_count), StrokeEnd(s) + Ticks(Margin))>>

\* the interval iv lies inside one of the candidate windows
Covered(iv) ==
    \E k \in 1..Len(candidate_windows) :
        candidate_windows[k][1] <= iv[1] /\ iv[2] <= candidate_windows[k][2]

\* C35: after the windows are built they are in ascending order, no two of
\* them meet and consecutive ones lie more than 0.25 s apart, each one lies
\* inside [0, duration], and every stroke of the first pass, widened by 1.5 s
\* on both sides and clipped to the video, lies inside one of them.
C35_CandidateWindows ==
    SecondPassRan =>
        /\ \A k \in 1..Len(candidate_windows) :
               /\ 0 <= candidate_windows[k][1]
               /\ candidate_windows[k][1] < candidate_windows[k][2]
               /\ candidate_windows[k][2] <= DurationOf(frame_count)
        /\ \A k \in 1..(Len(candidate_windows) - 1) :
               candidate_windows[k + 1][1] >
                   candidate_windows[k][2] + Ticks(MergeSlack)
        /\ \A j \in 1..Len(strokes1) :
               Widened(strokes1[j])[1] < Widened(strokes1[j])[2]
                   => Covered(Widened(strokes1[j]))

\* two strokes whose widened intervals lie 0.2 s apart were joined into one
\* window, and a run with two strokes far apart kept two windows
C35_Witness ==
    /\ SecondPassRan
    /\ Len(strokes1) = 2
    /\ Len(candidate_windows) = 1
    /\ Widened(strokes1[1])[2] < Widened(strokes1[2])[1]

C35_WitnessApart ==
    /\ SecondPassRan
    /\ Len(strokes1) = 2
    /\ Len(candidate_windows) = 2


(***************************************************************************)
(* Properties of the local job server                                      *)
(***************************************************************************)
\* the response of the status request has been handed to jsonify
StatusAnswered == status_pc = "returned"

\* C36: a status response that reports COMPLETED carries the output that
\* handler(job) returned for that job, never a missing or None output.
C36_CompletedCarriesOutput ==
    (StatusAnswered /\ response.status = "COMPLETED")
        => /\ response.output \notin {NoKey, NoOutput}
           /\ response.output = result[response.id]

\* C37: a job whose status is CANCELLED keeps that status in every step.
C37_CancelledIsFinal ==
    [][\A j \in 1..Len(jobs) :
           jobs[j].status = "CANCELLED" => jobs'[j].status = "CANCELLED"]_vars


(***************************************************************************)
(* Properties of the frame records                                         *)
(***************************************************************************)
\* C38: every analysis frame that is read appends exactly one frame record,
\* whose frameIdx is the number of records before it and whose frame_idx is
\* the index of the frame, also while the loop waits for an ROI match.
C38_OneRecordPerAnalysisFrame ==
    [][(FrameRead /\ is_analysis_frame')
          => /\ res_entry' # <<>>
             /\ res_entry'.frameIdx = saved_frame_count
             /\ res_entry'.frame_idx = frame_idx'
             /\ saved_frame_count' = saved_frame_count + 1]_vars


(***************************************************************************)
(* Properties of a run without tracker                                     *)
(***************************************************************************)
\* a frame on which the first-time selection runs to its end with a
\* candidate that the area option accepts, so that one of the three options
\* selects a candidate
SelectionSucceeds ==
    /\ ~Locked
    /\ outcome' # "wait"
    /\ \E k \in 1..Len(tracks') : NearCourt(tracks'[k].box)

\* C39: without tracker the raw detections are the candidates of the frame,
\* and when one of them meets the first-time selection criteria a target is
\* locked and found in that frame.
C39_RawDetectionLocked ==
    [][(~tracker_ok /\ SelectionSucceeds)
          => /\ tracks' = RawTracks(detections', 1)
             /\ Locked'
             /\ found'
             /\ best_box' \in BoxesOfId(tracks', target_track_id')]_vars

\* the same selection with tracker identifiers locks a target
TrackerSelectionLocks ==
    [][(tracker_ok /\ SelectionSucceeds)
          => (Locked' /\ found' /\ best_box' \in BoxesOfId(tracks', target_track_id'))]_vars

====
